---- MODULE Spec2Model ----
(***************************************************************************)
(* Project discovery / indexing / watch pipeline of language-mcp:          *)
(*   ProjectRegistry    src/src/project-discovery/registry.ts              *)
(*   ProjectIndexer     src/src/project-discovery/scanner.ts (l. 330-825)  *)
(*   ProjectFileWatcher src/src/project-discovery/file-watcher.ts          *)
(*                                                                         *)
(* The program runs on one event loop.  Every asynchronous invocation is a *)
(* task; a task runs atomically from one await that really suspends (file  *)
(* system, analyzer, storage) to the next.  Times are milliseconds.        *)
(*                                                                         *)
(* A JavaScript object is a function from its keys to their values.  A key *)
(* that holds undefined is represented as an absent key: JSON.stringify    *)
(* omits such keys and every read in the program treats both alike.        *)
(***************************************************************************)
EXTENDS Integers, Sequences, FiniteSets, TLC

VARIABLES
  projects,        \* ProjectRegistry.projects: Map in insertion order, <<[key, value]>>
  disk,            \* content of registry.json
  now,             \* Date.now()
  tasks,           \* asynchronous invocations in flight, in the order they were started
  launched,        \* number of invocations launched so far
  isIndexing,      \* ProjectIndexer.isIndexing
  cronTask,        \* ProjectIndexer.cronTask # null
  schedules,       \* the node-cron tasks that are running: the schedule of each
  indexer,         \* ProjectsAnalyzer.indexer # null
  collection,      \* the documents of the Chroma collection "documentation": {[type, project_path]}
  replaced,        \* the indexer / watcher pairs initialize() has overwritten: <<[cronTask, watchers]>>
  scanEntries,     \* the names readdir returned for the directory analyzeDirectory is given
  scanResult,      \* what analyzeDirectory returned for them
  fs,              \* the directories under the home directory: path -> names of its files
  links,           \* the symbolic links of the file system: {[link, target]}
  discovered,      \* what the last discoverProjects / quickDiscoverProjects returned
  watchers,        \* ProjectFileWatcher.watchers: watched path -> project captured by the observer
  debounceTimers,  \* ProjectFileWatcher.debounceTimers: path -> timer handle
  armed,           \* timers of the event loop that are armed: handle -> [path, due]
  nextTimer,       \* next timer handle setTimeout returns
  lastEvent,       \* observation: time of the last qualifying event per path
  bursts,          \* observation: number of bursts of qualifying events per path
  calls,           \* observation: watcher-initiated reindexProject calls per path
  earlyCalls,      \* observation: such calls started less than one window after an event
  lastCall,        \* observation: the last invocation of the indexer: [kind, path, result]
  lastOp           \* observation: the last change of the registry Map: [op, arg, rep, tog, saved]

vars == <<projects, disk, now, tasks, launched, isIndexing, cronTask, schedules, indexer, replaced,
          collection,
          scanEntries, scanResult, fs, links, discovered, watchers,
          debounceTimers, armed, nextTimer, lastEvent, bursts, calls,
          earlyCalls, lastCall, lastOp>>

-----------------------------------------------------------------------------
(* Bounds of the model *)

MaxCalls == 3          \* registry methods called in one behaviour of SpecRegistry
MaxTicks == 1          \* clock advances in one behaviour of SpecRegistry
MaxEvents == 3         \* file change notifications in one behaviour of SpecWatcher
MaxCount == 1          \* records an analyzer returns for one category
MaxLaunch == 2         \* batches and forced re-indexes started in one behaviour of SpecIndexer
MaxHalves == 5         \* clock advances in one behaviour of SpecWatcher
MaxLen == 2            \* elements of the project list of a registry.json of SpecLoad

(* Program constants *)

debounceDelay == 5000
ONE_DAY == 24 * 60 * 60 * 1000

(* Clock: Date.now() at the start of a behaviour, and the advances a step takes *)
Epoch == 100000000
Hour == 60 * 60 * 1000
HalfWindow == debounceDelay \div 2

Paths == {"/w/a", "/w/b"}
NoTimer == 0

-----------------------------------------------------------------------------
(* JavaScript objects and Map *)

Has(o, k) == k \in DOMAIN o

Only(o, ks) == [k \in DOMAIN o \cap ks |-> o[k]]

EmptyObj == [k \in {} |-> 0]

DiscoveryKeys == {"path", "name", "language", "ide", "hasGit", "lastModified", "indicators"}
LifecycleKeys == {"indexStatus", "lastIndexed", "symbolCount", "testCount", "docCount", "error"}

MapKeys(m) == {m[i].key : i \in 1..Len(m)}

MapHas(m, k) == k \in MapKeys(m)

MapIndex(m, k) == CHOOSE i \in 1..Len(m) : m[i].key = k

MapGet(m, k) == m[MapIndex(m, k)].value

\* Map.prototype.set: an existing key keeps its position
MapSet(m, k, v) ==
  IF MapHas(m, k)
    THEN [m EXCEPT ![MapIndex(m, k)] = [key |-> k, value |-> v]]
    ELSE Append(m, [key |-> k, value |-> v])

MapDelete(m, k) == SelectSeq(m, LAMBDA e : e.key # k)

\* Array.from(map.values())
MapValues(m) == [i \in 1..Len(m) |-> m[i].value]

-----------------------------------------------------------------------------
(* ProjectRegistry: the synchronous part of every method *)

AddProjectMetadata_Reset(m, d) ==
  LET existing == IF MapHas(m, d.path) THEN MapGet(m, d.path) ELSE EmptyObj
  IN  ("indexStatus" :> "pending")
        @@ Only(existing, {"lastIndexed", "symbolCount", "testCount", "docCount"})
        @@ d

\* addProject, lines 68-79: the object stored for project d
AddProjectMetadata(m, d) ==
  LET existing == IF MapHas(m, d.path) THEN MapGet(m, d.path) ELSE EmptyObj
      status == IF Has(existing, "indexStatus") THEN existing.indexStatus ELSE "pending"
  IN  ("indexStatus" :> status)
        @@ Only(existing, {"lastIndexed", "symbolCount", "testCount", "docCount"})
        @@ d

\* (a variant that pushes a new entry instead of replacing the one of the path)
AddProjectMap_Push(m, d) == Append(m, [key |-> d.path, value |-> AddProjectMetadata(m, d)])

\* addProject, line 79
AddProjectMap(m, d) == MapSet(m, d.path, AddProjectMetadata(m, d))

UpdateIndexStatusMap_Create(m, projectPath, status, metadata, t) ==
  LET project == IF MapHas(m, projectPath) THEN MapGet(m, projectPath)
                 ELSE ("path" :> projectPath)
      stamped == IF status = "completed" THEN ("lastIndexed" :> t) ELSE EmptyObj
  IN  MapSet(m, projectPath,
             metadata @@ stamped @@ ("indexStatus" :> status) @@ project)

\* updateIndexStatus, lines 96-108; metadata is the optional fourth argument
UpdateIndexStatusMap(m, projectPath, status, metadata, t) ==
  IF ~MapHas(m, projectPath) THEN m
  ELSE LET project == MapGet(m, projectPath)
           stamped == IF status = "completed" THEN ("lastIndexed" :> t) ELSE EmptyObj
       IN  MapSet(m, projectPath,
                  metadata @@ stamped @@ ("indexStatus" :> status) @@ project)

\* removeProject, line 148
RemoveProjectMap(m, projectPath) == MapDelete(m, projectPath)

\* !p.lastIndexed
NoLastIndexed(p) == ~Has(p, "lastIndexed") \/ p.lastIndexed = 0

\* the filter of getProjectsNeedingIndex, lines 195-206
NeedsIndex_Inclusive(p, t) ==
  IF NoLastIndexed(p) THEN TRUE
  ELSE IF p.indexStatus = "failed" THEN TRUE
  ELSE t - p.lastIndexed >= ONE_DAY

NeedsIndex(p, t) ==
  IF NoLastIndexed(p) THEN TRUE
  ELSE IF Has(p, "indexStatus") /\ p.indexStatus = "failed" THEN TRUE
  ELSE IF t - p.lastIndexed > ONE_DAY THEN TRUE
  ELSE FALSE

\* getProjectsNeedingIndex, lines 191-207
GetProjectsNeedingIndex(m, t) == SelectSeq(MapValues(m), LAMBDA p : NeedsIndex(p, t))

\* getProject
GetProject(m, projectPath) == MapGet(m, projectPath)

(* registry.json *)

NoFile == [kind |-> "absent"]

\* (a variant that serializes the discovery fields and the status only)
Stringify_Lossy(m, t) ==
  [kind |-> "json", version |-> "1.0", lastUpdated |-> t,
   projects |-> [i \in 1..Len(m) |-> Only(m[i].value, DiscoveryKeys \cup {"indexStatus"})]]

\* save, lines 51-57: the text handed to writeFile
Stringify(m, t) ==
  [kind |-> "json", version |-> "1.0", lastUpdated |-> t, projects |-> MapValues(m)]

\* a file readFile rejects for, and a file whose text JSON.parse rejects
Unreadable == [kind |-> "unreadable"]
NotJson == [kind |-> "text"]

\* the JSON value null as an element of the project list, and the value of a
\* property an object does not have
Null == [null |-> TRUE]
Undefined == "undefined"

\* project.path, line 32, for an element that is an object
PathOf(project) == IF Has(project, "path") THEN project.path ELSE Undefined

RECURSIVE SetAll(_, _)
\* load, lines 31-33: this.projects.set(project.path, project) for every element
SetAll(m, arr) ==
  IF arr = <<>> THEN m
  ELSE SetAll(MapSet(m, PathOf(Head(arr)), Head(arr)), Tail(arr))

\* load, lines 26-39: the registry after reading file content f.  readFile
\* throws for a missing or unreadable file, JSON.parse for a text that is not
\* JSON, project.path for an element that is null: the catch clears the map.
\* A text without a project list loads as the empty list.
LoadMap(f) ==
  IF f.kind # "json" THEN <<>>
  ELSE IF ~Has(f, "projects") THEN <<>>
  ELSE IF \E i \in 1..Len(f.projects) : f.projects[i] = Null THEN <<>>
  ELSE SetAll(<<>>, f.projects)

-----------------------------------------------------------------------------
(* Inputs *)

LastIndexOf(s, ch) ==
  LET at == {i \in 1..Len(s) : SubSeq(s, i, i) = ch}
  IN  IF at = {} THEN 0 ELSE CHOOSE i \in at : \A j \in at : j <= i

\* path.basename
Basename(p) == SubSeq(p, LastIndexOf(p, "/") + 1, Len(p))

\* what a scan reports for a directory: its language and indicators may change
Discovered(p, lang) ==
  [path |-> p, name |-> Basename(p), language |-> lang, ide |-> "vscode",
   hasGit |-> TRUE, lastModified |-> Epoch - Hour,
   indicators |-> CASE lang = "go" -> <<".vscode", ".git", "go.mod">>
                    [] lang = "python" -> <<".vscode", ".git", "setup.py">>
                    [] lang = "nodejs" -> <<".vscode", ".git", "package.json">>
                    [] OTHER -> <<".vscode", ".git", "go.mod", "package.json">>]

\* what a scan hands to addProject: one directory, seen before and after a
\* package.json appeared next to its go.mod
DiscoveredSet == {Discovered("/w/a", "go"), Discovered("/w/a", "mixed")}

\* the paths callers of updateIndexStatus and removeProject name
ArgPaths == {"/w/a"}

Counts(s, t, d) == [symbolCount |-> s, testCount |-> t, docCount |-> d]

\* entries of registry.json as the program finds them at startup
Pending(d) == ("indexStatus" :> "pending") @@ d
Completed(d, age, c) == ("indexStatus" :> "completed") @@ ("lastIndexed" :> Epoch - age) @@ c @@ d
Failed(d, age, c) ==
  ("indexStatus" :> "failed") @@ ("error" :> "analyzer crashed")
    @@ ("lastIndexed" :> Epoch - age) @@ c @@ d

File(ps) == [kind |-> "json", version |-> "1.0", lastUpdated |-> Epoch - Hour, projects |-> ps]

\* registry.json when SpecRegistry starts
InitialDisks ==
  { NoFile,
    File(<< Pending(Discovered("/w/a", "go")) >>),
    File(<< Completed(Discovered("/w/a", "go"), Hour, Counts(1, 1, 0)),
            Completed(Discovered("/w/b", "mixed"), 25 * Hour, Counts(1, 0, 0)) >>) }

\* registry.json when SpecIndexer starts
IndexerDisks ==
  { File(<< Pending(Discovered("/w/a", "python")),
            Completed(Discovered("/w/b", "go"), ONE_DAY, Counts(1, 0, 0)) >>),
    File(<< Failed(Discovered("/w/a", "go"), Hour, Counts(1, 1, 0)),
            Completed(Discovered("/w/b", "go"), ONE_DAY + 1, Counts(1, 0, 0)) >>) }

-----------------------------------------------------------------------------
(* Tasks: one record per asynchronous invocation *)

NoProj == [path |-> "", language |-> ""]

NewTask(kind) ==
  [kind |-> kind,      \* the method invoked
   pc |-> "done",      \* the await the invocation is suspended at
   stage |-> "-",      \* which updateIndexStatus of indexProject is saving
   proj |-> NoProj,    \* indexProject's argument
   todo |-> <<>>,      \* projectsToIndex still to be visited
   data |-> NoFile,    \* the text handed to writeFile
   fresh |-> FALSE,    \* observation: a save called on the registry directly has
                       \* serialized data and the Map has not changed since
   counts |-> Counts(0, 0, 0),
   stamp |-> 0,        \* observation: Date.now() when the pass wrote completed
   threw |-> FALSE,    \* observation: an analyzer or storage call of this pass threw
   found |-> <<>>,     \* what the scanner returned to discover_projects
   snapshot |-> <<>>,  \* observation: paths getProjectsNeedingIndex returned
   log |-> <<>>]       \* observation: the passes of this invocation

Drop(ts, t) == SubSeq(ts, 1, t - 1) \o SubSeq(ts, t + 1, Len(ts))

\* observation of a change of the Map: op and arg name it, rep is a fact about
\* the state it was made in, tog flips with every change, saved is set once a
\* save has written the Map as this change left it
Op(op, arg, rep) == [op |-> op, arg |-> arg, rep |-> rep, tog |-> ~lastOp.tog, saved |-> FALSE]

\* the snapshots already serialized are older than the Map
Stale(ts) == [i \in 1..Len(ts) |-> [ts[i] EXCEPT !.fresh = FALSE]]

IndexerVars == <<isIndexing, cronTask, schedules, indexer, lastCall>>
ScannerVars == <<scanEntries, scanResult, fs, links, discovered>>
WatcherVars == <<watchers, debounceTimers, armed, nextTimer, lastEvent, bursts, calls, earlyCalls>>

-----------------------------------------------------------------------------
(* The state a continuation of a task may change, and the result of running it *)

Ctx ==
  [projects |-> projects, isIndexing |-> isIndexing, debounceTimers |-> debounceTimers,
   watchers |-> watchers]

R(tk, ctx) == [task |-> tk, ctx |-> ctx]

RegistryKinds == {"addProject", "updateIndexStatus", "removeProject", "save"}

\* an invocation that has returned leaves the task list
Keeps(tk) == tk.pc \notin {"done", "skipped"}

\* observation of an invocation of the indexer that ran up to its first await with result r
Called(kind, path, r) ==
  [kind |-> kind, path |-> path,
   result |-> IF r.task.pc = "skipped" THEN "skipped"
              ELSE IF r.task.pc = "done" THEN "returned" ELSE "running"]

\* observation of a change of the Map made by an indexing pass
PassOp == [op |-> "pass", arg |-> EmptyObj, rep |-> FALSE, tog |-> FALSE, saved |-> FALSE]

Changed(r, lo) == IF r.ctx.projects # projects THEN PassOp ELSE lo

Settle(ts, r) == IF r.ctx.projects # projects THEN Stale(ts) ELSE ts

\* task t continues with result r
Apply(t, r, lo) ==
  /\ tasks' = IF Keeps(r.task) THEN [Settle(tasks, r) EXCEPT ![t] = r.task]
                               ELSE Settle(Drop(tasks, t), r)
  /\ projects' = r.ctx.projects
  /\ isIndexing' = r.ctx.isIndexing
  /\ debounceTimers' = r.ctx.debounceTimers
  /\ watchers' = r.ctx.watchers
  /\ lastOp' = Changed(r, lo)

\* a new invocation runs up to its first await with result r
Start(r, lo) ==
  /\ tasks' = IF Keeps(r.task) THEN Append(Settle(tasks, r), r.task) ELSE Settle(tasks, r)
  /\ projects' = r.ctx.projects
  /\ isIndexing' = r.ctx.isIndexing
  /\ debounceTimers' = r.ctx.debounceTimers
  /\ watchers' = r.ctx.watchers
  /\ lastOp' = Changed(r, lo)

Launch(r, lo) == launched' = launched + 1 /\ Start(r, lo)

-----------------------------------------------------------------------------
(* ProjectIndexer *)

ProjOf(o) == [path |-> o.path, language |-> o.language]

\* what an analyzer call can do: throw, or return n records
AnalyzerResults == {[throws |-> TRUE, n |-> 0], [throws |-> FALSE, n |-> MaxCount]}

\* indexGoProject / indexPythonProject / indexNodeProject, lines 483-557: what
\* the sub-pass returns when find_symbols gives sym, find_tests gives tst,
\* indexProjectDocs gives docs, and addDocuments succeeds or throws
SubPass(sym, symStored, tst, tstStored, docs) ==
  LET symDocs == IF sym.n > 0 THEN {"local_symbol"} ELSE {}
      tstDocs == IF tst.n > 0 THEN {"local_test"} ELSE {}
      docDocs == IF docs > 0 THEN {"local_doc"} ELSE {}
  IN  IF sym.throws THEN [counts |-> Counts(0, 0, 0), threw |-> TRUE, stored |-> {}]
      ELSE IF sym.n > 0 /\ ~symStored
        THEN [counts |-> Counts(sym.n, 0, 0), threw |-> TRUE, stored |-> {}]
      ELSE IF tst.throws
        THEN [counts |-> Counts(sym.n, 0, 0), threw |-> TRUE, stored |-> symDocs]
      ELSE IF tst.n > 0 /\ ~tstStored
        THEN [counts |-> Counts(sym.n, tst.n, 0), threw |-> TRUE, stored |-> symDocs]
      ELSE [counts |-> Counts(sym.n, tst.n, docs), threw |-> FALSE,
            stored |-> symDocs \cup tstDocs \cup docDocs]

\* find_symbols throws or returns records and storing them succeeds or throws;
\* the calls after these succeed, and the project has no documentation files
SubPassOutcomes ==
  {SubPass(sym, ss, tst, ts, docs) :
     sym \in AnalyzerResults, ss \in BOOLEAN, tst \in {[throws |-> FALSE, n |-> MaxCount]},
     ts \in {TRUE}, docs \in {0}}

Plus(a, b) == Counts(a.symbolCount + b.symbolCount, a.testCount + b.testCount,
                     a.docCount + b.docCount)

\* a Promise.all in the place of Promise.allSettled with sub-passes that
\* reject: the first error discards what the other sub-passes returned
Mixed_FailFast(g, py, nd) ==
  IF g.threw \/ py.threw \/ nd.threw
    THEN [counts |-> Counts(0, 0, 0), threw |-> TRUE,
          stored |-> g.stored \cup py.stored \cup nd.stored]
    ELSE [counts |-> Plus(Plus(g.counts, py.counts), nd.counts), threw |-> FALSE,
          stored |-> g.stored \cup py.stored \cup nd.stored]

\* indexProject, lines 444-459: Promise.allSettled over indexGoProject,
\* indexPythonProject and indexNodeProject, and the loop adding what each returned
Mixed(g, py, nd) ==
  [counts |-> Plus(Plus(g.counts, py.counts), nd.counts),
   threw |-> g.threw \/ py.threw \/ nd.threw,
   stored |-> g.stored \cup py.stored \cup nd.stored]

\* indexProject, lines 425-459: what the sub-passes leave in symbolCount,
\* testCount and docCount for a project of the given language, for every way
\* the analyzers and the storage can answer
MixedOutcomes ==
  {Mixed(g, py, nd) : g \in SubPassOutcomes, py \in SubPassOutcomes, nd \in SubPassOutcomes}

PassOutcomes(language) ==
  IF language \in {"go", "python", "nodejs"} THEN SubPassOutcomes
  ELSE IF language = "mixed" THEN MixedOutcomes
  ELSE {[counts |-> Counts(0, 0, 0), threw |-> FALSE, stored |-> {}]}

\* indexProject, lines 417-422: up to the await in updateIndexStatus -> save
StartPass(tk, ctx, p, t) ==
  LET tk1 == [tk EXCEPT !.proj = p, !.counts = Counts(0, 0, 0), !.threw = FALSE, !.stamp = 0,
                        !.stage = "A", !.data = NoFile,
                        !.log = Append(@, [path |-> p.path, threw |-> FALSE, status |-> "running"])]
  IN  IF MapHas(ctx.projects, p.path)
        THEN R([tk1 EXCEPT !.pc = "mkdir"],
               [ctx EXCEPT !.projects = UpdateIndexStatusMap(@, p.path, "indexing", EmptyObj, t)])
        ELSE R([tk1 EXCEPT !.pc = "analyze"], ctx)

\* indexPendingProjects without its finally clause
EndPass_KeepsFlag(tk, ctx, status, t) ==
  LET tk1 == [tk EXCEPT !.pc = "done", !.stage = "-", !.data = NoFile, !.fresh = FALSE,
                        !.log[Len(tk.log)] = [path |-> tk.proj.path, threw |-> tk.threw,
                                              status |-> status]]
  IN  CASE tk.kind = "batch" ->
             IF tk.todo # <<>>
               THEN StartPass([tk1 EXCEPT !.todo = Tail(@)], ctx, Head(tk.todo), t)
               ELSE R(tk1, ctx)
        [] tk.kind = "timer" ->
             R(tk1, [ctx EXCEPT !.debounceTimers[tk.proj.path] = NoTimer])
        [] OTHER -> R(tk1, ctx)

EndPass_Abort(tk, ctx, status, t) ==
  LET tk1 == [tk EXCEPT !.pc = "done", !.stage = "-", !.data = NoFile, !.fresh = FALSE,
                        !.log[Len(tk.log)] = [path |-> tk.proj.path, threw |-> tk.threw,
                                              status |-> status]]
  IN  CASE tk.kind = "batch" ->
             IF tk.todo # <<>> /\ ~tk.threw
               THEN StartPass([tk1 EXCEPT !.todo = Tail(@)], ctx, Head(tk.todo), t)
               ELSE R(tk1, [ctx EXCEPT !.isIndexing = FALSE])
        [] tk.kind = "timer" ->
             R(tk1, [ctx EXCEPT !.debounceTimers[tk.proj.path] = NoTimer])
        [] OTHER -> R(tk1, ctx)

\* the pass has written its last status: indexProject returns to its caller,
\*   indexPendingProjects, lines 404-411: the next project, or finally
\*   the debounce timer callback, file-watcher.ts lines 101-103: finally
\*   reindexProject, line 808
EndPass(tk, ctx, status, t) ==
  LET tk1 == [tk EXCEPT !.pc = "done", !.stage = "-", !.data = NoFile, !.fresh = FALSE,
                        !.log[Len(tk.log)] = [path |-> tk.proj.path, threw |-> tk.threw,
                                              status |-> status]]
  IN  CASE tk.kind = "batch" ->
             IF tk.todo # <<>>
               THEN StartPass([tk1 EXCEPT !.todo = Tail(@)], ctx, Head(tk.todo), t)
               ELSE R(tk1, [ctx EXCEPT !.isIndexing = FALSE])
        [] tk.kind = "timer" ->
             R(tk1, [ctx EXCEPT !.debounceTimers[tk.proj.path] = NoTimer])
        [] OTHER -> R(tk1, ctx)

Complete_NoStatus(tk, ctx, counts, threw, t) ==
  LET tk1 == [tk EXCEPT !.counts = counts, !.threw = threw, !.stage = "C", !.stamp = t]
  IN  IF MapHas(ctx.projects, tk.proj.path)
        THEN R([tk1 EXCEPT !.pc = "mkdir"], ctx)
        ELSE EndPass(tk1, ctx, "unknown", t)

\* indexProject, lines 461-466: the sub-passes have returned
Complete(tk, ctx, counts, threw, t) ==
  LET tk1 == [tk EXCEPT !.counts = counts, !.threw = threw, !.stage = "C", !.stamp = t]
  IN  IF MapHas(ctx.projects, tk.proj.path)
        THEN R([tk1 EXCEPT !.pc = "mkdir"],
               [ctx EXCEPT !.projects = UpdateIndexStatusMap(@, tk.proj.path, "completed", counts, t)])
        ELSE EndPass(tk1, ctx, "unknown", t)

\* watchProject, file-watcher.ts lines 33-56, for one registry entry
WatchProject(w, project) ==
  IF MapHas(w, project.path) THEN w
  ELSE MapSet(w, project.path,
              [path |-> project.path, name |-> project.name, language |-> project.language])

RECURSIVE WatchAll(_, _)
WatchAll(w, ps) == IF ps = <<>> THEN w ELSE WatchAll(WatchProject(w, Head(ps)), Tail(ps))

\* discoverProjects, projects.ts lines 130-142: the next addProject up to its
\* await of save, or, after the last one, watchProject for every discovered
\* path the registry has
AddDiscovered(tk, ctx) ==
  IF tk.todo # <<>>
    THEN R([tk EXCEPT !.pc = "mkdir", !.todo = Tail(@), !.data = NoFile, !.fresh = FALSE],
           [ctx EXCEPT !.projects = AddProjectMap(@, Head(tk.todo))])
    ELSE R([tk EXCEPT !.pc = "done", !.data = NoFile, !.fresh = FALSE],
           [ctx EXCEPT !.watchers =
              WatchAll(@, SelectSeq([i \in 1..Len(tk.found) |->
                                       IF MapHas(ctx.projects, tk.found[i].path)
                                         THEN MapGet(ctx.projects, tk.found[i].path)
                                         ELSE Null],
                                    LAMBDA e : e # Null))])

AfterSave_Early(tk, ctx, t) ==
  IF tk.kind \in RegistryKinds THEN R([tk EXCEPT !.pc = "done"], ctx)
  ELSE IF tk.stage = "A" /\ tk.kind = "force" THEN R([tk EXCEPT !.pc = "done"], ctx)
  ELSE IF tk.stage = "A" THEN R([tk EXCEPT !.pc = "analyze", !.data = NoFile, !.fresh = FALSE], ctx)
  ELSE EndPass(tk, ctx, "completed", t)

\* what follows `await this.save()` in the invocation of tk
AfterSave(tk, ctx, t) ==
  IF tk.kind \in RegistryKinds THEN R([tk EXCEPT !.pc = "done"], ctx)
  ELSE IF tk.kind = "discover_projects" THEN AddDiscovered(tk, ctx)
  ELSE IF tk.stage = "A" THEN R([tk EXCEPT !.pc = "analyze", !.data = NoFile, !.fresh = FALSE], ctx)
  ELSE EndPass(tk, ctx, "completed", t)

IndexPendingProjects_NoGuard(tk, ctx, t) ==
  LET projectsToIndex == GetProjectsNeedingIndex(ctx.projects, t)
      todo == [i \in 1..Len(projectsToIndex) |-> ProjOf(projectsToIndex[i])]
      tk1 == [tk EXCEPT !.snapshot = [i \in 1..Len(todo) |-> todo[i].path]]
  IN  IF todo = <<>> THEN R([tk1 EXCEPT !.pc = "done"], ctx)
      ELSE StartPass([tk1 EXCEPT !.todo = Tail(todo)],
                     [ctx EXCEPT !.isIndexing = TRUE], Head(todo), t)

\* indexPendingProjects, lines 392-405: up to the first await
IndexPendingProjects(tk, ctx, t) ==
  IF ctx.isIndexing THEN R([tk EXCEPT !.pc = "skipped"], ctx)
  ELSE LET projectsToIndex == GetProjectsNeedingIndex(ctx.projects, t)
           todo == [i \in 1..Len(projectsToIndex) |-> ProjOf(projectsToIndex[i])]
           tk1 == [tk EXCEPT !.snapshot = [i \in 1..Len(todo) |-> todo[i].path]]
       IN  IF todo = <<>> THEN R([tk1 EXCEPT !.pc = "done"], ctx)
           ELSE StartPass([tk1 EXCEPT !.todo = Tail(todo)],
                          [ctx EXCEPT !.isIndexing = TRUE], Head(todo), t)

-----------------------------------------------------------------------------
(* Steps every specification shares *)

\* save, lines 49-57: mkdir resolves, the snapshot is serialized, writeFile starts;
\* a rejected mkdir goes to the catch at line 59
SaveMkdirDone(t, ok) ==
  /\ tasks[t].pc = "mkdir"
  /\ IF ok THEN /\ tasks' = [tasks EXCEPT ![t].pc = "write",
                                          ![t].fresh = tasks[t].kind \in RegistryKinds,
                                          ![t].data = Stringify(projects, now)]
                /\ UNCHANGED <<projects, isIndexing, debounceTimers, watchers, lastOp>>
           ELSE Apply(t, AfterSave(tasks[t], Ctx, now), lastOp)
  /\ UNCHANGED <<disk, now, replaced, collection, ScannerVars, launched, cronTask, schedules, indexer, lastCall, armed, nextTimer,
                 lastEvent, bursts, calls, earlyCalls>>

\* save, line 57: writeFile has opened registry.json for writing, which
\* truncates it, and has written none or a part of the text
WriteFileOpens(t) ==
  /\ tasks[t].pc = "write"
  /\ tasks' = [tasks EXCEPT ![t].pc = "writing"]
  /\ disk' = NotJson
  /\ UNCHANGED <<projects, now, replaced, collection, ScannerVars, launched, lastOp, IndexerVars, WatcherVars>>

\* what registry.json holds when the writeFile of task t settles: the text, or
\* a mix of two texts when another writeFile has the file open; a writeFile
\* that rejects leaves the file as it is
WriteResults(t, ok) ==
  IF ~ok THEN {disk}
  ELSE {tasks[t].data}
         \cup {NotJson : u \in {v \in 1..Len(tasks) : v # t /\ tasks[v].pc = "writing"}}

\* save, lines 57-61: writeFile resolves or rejects
SaveWriteDone(t, ok) ==
  /\ tasks[t].pc \in {"write", "writing"}
  /\ disk' \in WriteResults(t, ok)
  /\ Apply(t, AfterSave(tasks[t], Ctx, now), [lastOp EXCEPT !.saved = ok /\ tasks[t].fresh])
  /\ UNCHANGED <<now, replaced, collection, ScannerVars, launched, cronTask, schedules, indexer, lastCall, armed, nextTimer,
                 lastEvent, bursts, calls, earlyCalls>>

\* the documents the sub-passes of a pass on project p handed to addDocuments
\* (scanner.ts lines 501-545, 745-750), by their metadata type
Documents(p, types) == {[type |-> ty, project_path |-> p.path] : ty \in types}

\* indexProject, lines 429-466: the analyzer and storage calls of the pass return
AnalyzeDone(t, o) ==
  /\ tasks[t].pc = "analyze"
  /\ o \in PassOutcomes(tasks[t].proj.language)
  /\ Apply(t, Complete(tasks[t], Ctx, o.counts, o.threw, now), lastOp)
  /\ collection' = collection \cup Documents(tasks[t].proj, o.stored)
  /\ UNCHANGED <<disk, now, replaced, ScannerVars, launched, cronTask, schedules, indexer, lastCall, armed, nextTimer,
                 lastEvent, bursts, calls, earlyCalls>>

\* Date.now() advances
Tick(step, max) ==
  /\ now + step <= Epoch + max * step
  /\ now' = now + step
  /\ UNCHANGED <<projects, disk, tasks, launched, lastOp, IndexerVars, replaced, collection, ScannerVars, WatcherVars>>

-----------------------------------------------------------------------------
(* ProjectRegistry called directly *)

CanCall == launched < MaxCalls

\* save, lines 46-49: up to `await mkdir`
BeginSave(tk) == [tk EXCEPT !.pc = "mkdir"]

\* addProject
CallAddProject(d) ==
  /\ CanCall
  /\ launched' = launched + 1
  /\ projects' = AddProjectMap(projects, d)
  /\ tasks' = Append(Stale(tasks), BeginSave(NewTask("addProject")))
  /\ lastOp' = Op("add", d, lastOp.op = "add" /\ lastOp.arg = d)
  /\ UNCHANGED <<disk, now, replaced, collection, ScannerVars, IndexerVars, WatcherVars>>

\* updateIndexStatus; an unknown path returns at line 97, before save
CallUpdateIndexStatus(projectPath, status, metadata) ==
  /\ CanCall
  /\ launched' = launched + 1
  /\ projects' = UpdateIndexStatusMap(projects, projectPath, status, metadata, now)
  /\ tasks' = IF MapHas(projects, projectPath)
                THEN Append(Stale(tasks), BeginSave(NewTask("updateIndexStatus")))
                ELSE tasks
  /\ lastOp' = IF MapHas(projects, projectPath)
                 THEN Op("update", [path |-> projectPath, status |-> status], FALSE)
                 ELSE lastOp
  /\ lastCall' = IF MapHas(projects, projectPath)
                   THEN lastCall
                   ELSE [kind |-> "updateIndexStatus", path |-> projectPath, result |-> "unknown"]
  /\ UNCHANGED <<disk, now, replaced, collection, ScannerVars, isIndexing, cronTask, schedules, indexer, WatcherVars>>

\* removeProject
CallRemoveProject(projectPath) ==
  /\ CanCall
  /\ launched' = launched + 1
  /\ projects' = RemoveProjectMap(projects, projectPath)
  /\ tasks' = Append(Stale(tasks), BeginSave(NewTask("removeProject")))
  /\ lastOp' = Op("remove", [path |-> projectPath], FALSE)
  /\ UNCHANGED <<disk, now, replaced, collection, ScannerVars, IndexerVars, WatcherVars>>

\* save
CallSave ==
  /\ CanCall
  /\ launched' = launched + 1
  /\ tasks' = Append(tasks, BeginSave(NewTask("save")))
  /\ UNCHANGED <<projects, disk, now, replaced, collection, ScannerVars, lastOp, IndexerVars, WatcherVars>>

\* load, lines 26-27: up to `await readFile`
CallLoad ==
  /\ CanCall
  /\ launched' = launched + 1
  /\ tasks' = Append(tasks, [NewTask("load") EXCEPT !.pc = "read"])
  /\ UNCHANGED <<projects, disk, now, replaced, collection, ScannerVars, lastOp, IndexerVars, WatcherVars>>

\* load, lines 27-39: readFile resolves
LoadReadDone(t) ==
  /\ tasks[t].kind = "load"
  /\ tasks[t].pc = "read"
  /\ projects' = LoadMap(disk)
  /\ tasks' = Stale(Drop(tasks, t))
  /\ lastOp' = Op("load", EmptyObj, lastOp.saved)
  /\ UNCHANGED <<disk, now, replaced, collection, ScannerVars, launched, IndexerVars, WatcherVars>>

StatusArgs ==
  { <<"indexing", EmptyObj>>,
    <<"completed", Counts(1, 0, 1)>>,
    <<"failed", [error |-> "analyzer crashed"]>> }

\* no scan has returned; maxDepth and markers are observations: the depth an
\* exhaustive scan was given, the directories find listed for a quick scan
NotScanned ==
  [mode |-> "none", projects |-> <<>>, maxDepth |-> 0, markers |-> <<>>, classified |-> <<>>]

\* analyzeDirectory has not been called
NotAnalyzed == [kind |-> "none"]

\* the objects as their constructors leave them
InitObjects ==
  /\ replaced = <<>>
  /\ collection = {}
  /\ scanResult = NotAnalyzed
  /\ discovered = NotScanned
  /\ now = Epoch
  /\ tasks = <<>>
  /\ launched = 0
  /\ isIndexing = FALSE
  /\ cronTask = FALSE
  /\ schedules = <<>>
  /\ watchers = <<>>
  /\ debounceTimers = [p \in Paths |-> NoTimer]
  /\ armed = <<>>
  /\ nextTimer = NoTimer + 1
  /\ lastEvent = [p \in Paths |-> 0]
  /\ bursts = [p \in Paths |-> 0]
  /\ calls = [p \in Paths |-> 0]
  /\ earlyCalls = [p \in Paths |-> 0]
  /\ lastCall = [kind |-> "none", path |-> "", result |-> "none"]
  /\ lastOp = [op |-> "none", arg |-> EmptyObj, rep |-> FALSE, tog |-> FALSE, saved |-> FALSE]

\* ProjectsAnalyzer.initialize() has run
InitCommon == InitObjects /\ indexer = TRUE /\ scanEntries = {} /\ fs = <<>> /\ links = {}

\* an hour passes between two calls, not during one
Idle == tasks = <<>>

InitRegistry ==
  /\ InitCommon
  /\ projects = <<>>
  /\ disk \in InitialDisks

NextRegistry ==
  \/ \E d \in DiscoveredSet : CallAddProject(d)
  \/ \E p \in ArgPaths, a \in StatusArgs : CallUpdateIndexStatus(p, a[1], a[2])
  \/ \E p \in ArgPaths : CallRemoveProject(p)
  \/ CallSave
  \/ CallLoad
  \/ \E t \in 1..Len(tasks), ok \in BOOLEAN : SaveMkdirDone(t, ok)
  \/ \E t \in 1..Len(tasks), ok \in BOOLEAN : SaveWriteDone(t, ok)
  \/ \E t \in 1..Len(tasks) : LoadReadDone(t)
  \/ (Idle /\ Tick(Hour, MaxTicks))

SpecRegistry == InitRegistry /\ [][NextRegistry]_vars

-----------------------------------------------------------------------------
(* The mutators of ProjectRegistry called concurrently, every write succeeding *)

NextMutators ==
  \/ \E d \in DiscoveredSet : CallAddProject(d)
  \/ \E p \in ArgPaths, a \in StatusArgs : CallUpdateIndexStatus(p, a[1], a[2])
  \/ \E p \in ArgPaths : CallRemoveProject(p)
  \/ \E t \in 1..Len(tasks) : SaveMkdirDone(t, TRUE)
  \/ \E t \in 1..Len(tasks) : SaveWriteDone(t, TRUE)

SpecMutators == InitRegistry /\ [][NextMutators]_vars

-----------------------------------------------------------------------------
(* ProjectRegistry.load on whatever registry.json holds *)

\* an element of the project list that is an object without a path
NoPathEntry == [name |-> "a", indexStatus |-> "pending"]

LoadElements ==
  { Completed(Discovered("/w/a", "go"), Hour, Counts(1, 1, 0)),
    Pending(Discovered("/w/b", "go")),
    Null,
    NoPathEntry }

\* registry.json when SpecLoad starts
LoadDisks ==
  {NoFile, Unreadable, NotJson, [kind |-> "json", version |-> "1.0"]}
    \cup {File(ps) : ps \in UNION {[1..n -> LoadElements] : n \in 0..MaxLen}}

InitLoad ==
  /\ InitCommon
  /\ projects = <<>>
  /\ disk \in LoadDisks

NextLoad ==
  \/ CallLoad
  \/ \E t \in 1..Len(tasks) : LoadReadDone(t)
  \/ \E d \in DiscoveredSet : CallAddProject(d)
  \/ \E t \in 1..Len(tasks), ok \in BOOLEAN : SaveMkdirDone(t, ok)
  \/ \E t \in 1..Len(tasks), ok \in BOOLEAN : SaveWriteDone(t, ok)

SpecLoad == InitLoad /\ [][NextLoad]_vars

-----------------------------------------------------------------------------
(* ProjectRegistry.save seen by a reader of registry.json *)

\* the process dies: its invocations and its Map are gone, registry.json stays
Crash ==
  /\ tasks # <<>>
  /\ tasks' = <<>>
  /\ projects' = <<>>
  /\ lastOp' = Op("crash", EmptyObj, FALSE)
  /\ UNCHANGED <<disk, now, replaced, collection, ScannerVars, launched, IndexerVars, WatcherVars>>

InitSave ==
  /\ InitCommon
  /\ disk \in InitialDisks
  /\ projects = LoadMap(disk)

NextSave ==
  \/ \E d \in DiscoveredSet : CallAddProject(d)
  \/ CallLoad
  \/ \E t \in 1..Len(tasks) : LoadReadDone(t)
  \/ \E t \in 1..Len(tasks) : SaveMkdirDone(t, TRUE)
  \/ \E t \in 1..Len(tasks) : WriteFileOpens(t)
  \/ \E t \in 1..Len(tasks), ok \in BOOLEAN : SaveWriteDone(t, ok)
  \/ Crash

SpecSave == InitSave /\ [][NextSave]_vars

-----------------------------------------------------------------------------
(* ProjectIndexer driven by its schedule and by the reindex_project tool *)

\* the schedule startBackgroundServices passes (projects.ts line 65), which is
\* also the default of startAutoIndexing and of the start_auto_indexing tool
Hourly == "0 * * * *"

\* startAutoIndexing without its guard: cron.schedule is called again and the
\* field is overwritten with the new task
StartAutoIndexingOn_NoGuard(task, running, cronSchedule) ==
  [cronTask |-> TRUE, schedules |-> Append(running, cronSchedule)]

\* startAutoIndexing, lines 365-376, on an indexer whose field holds a task
\* (task) or null, while the node-cron tasks in running are running
StartAutoIndexingOn(task, running, cronSchedule) ==
  IF task THEN [cronTask |-> TRUE, schedules |-> running]
  ELSE [cronTask |-> TRUE, schedules |-> Append(running, cronSchedule)]

\* stopAutoIndexing, lines 381-387: the task the field holds, which is the
\* one started last, is stopped
StopAutoIndexingOn(task, running) ==
  IF task THEN [cronTask |-> FALSE, schedules |-> SubSeq(running, 1, Len(running) - 1)]
  ELSE [cronTask |-> FALSE, schedules |-> running]

\* startAutoIndexing called by startBackgroundServices or by the
\* start_auto_indexing tool (projects.ts lines 322-352)
StartAutoIndexing(cronSchedule) ==
  /\ cronTask' = StartAutoIndexingOn(cronTask, schedules, cronSchedule).cronTask
  /\ schedules' = StartAutoIndexingOn(cronTask, schedules, cronSchedule).schedules
  /\ UNCHANGED <<projects, disk, now, replaced, collection, ScannerVars, tasks, launched, isIndexing, indexer, lastCall, lastOp,
                 WatcherVars>>

\* stopAutoIndexing, lines 381-387; SpecIndexer keeps the schedule running
StopAutoIndexing ==
  /\ cronTask' = StopAutoIndexingOn(cronTask, schedules).cronTask
  /\ schedules' = StopAutoIndexingOn(cronTask, schedules).schedules
  /\ UNCHANGED <<projects, disk, now, replaced, collection, ScannerVars, tasks, launched, isIndexing, indexer, lastCall, lastOp,
                 WatcherVars>>

\* the cron callback, lines 371-373, of a task that is running
CronFire ==
  /\ schedules # <<>>
  /\ launched < MaxLaunch
  /\ LET r == IndexPendingProjects(NewTask("batch"), Ctx, now)
     IN  /\ Launch(r, lastOp)
         /\ lastCall' = Called("batch", "", r)
  /\ UNCHANGED <<disk, now, replaced, collection, ScannerVars, cronTask, schedules, indexer, armed, nextTimer,
                 lastEvent, bursts, calls, earlyCalls>>

\* reindexProject, lines 802-809, called by the reindex_project tool
\* (projects.ts line 243); an unknown path throws at line 805
ForceReindex(projectPath) ==
  /\ launched < MaxLaunch
  /\ IF MapHas(projects, projectPath)
       THEN LET r == StartPass(NewTask("force"), Ctx,
                               ProjOf(GetProject(projects, projectPath)), now)
            IN  /\ Launch(r, lastOp)
                /\ lastCall' = Called("force", projectPath, r)
       ELSE /\ launched' = launched + 1
            /\ lastCall' = [kind |-> "force", path |-> projectPath, result |-> "threw"]
            /\ UNCHANGED <<projects, tasks, isIndexing, debounceTimers, watchers, lastOp>>
  /\ UNCHANGED <<disk, now, replaced, collection, ScannerVars, cronTask, schedules, indexer, armed, nextTimer,
                 lastEvent, bursts, calls, earlyCalls>>

\* after ProjectsAnalyzer.initialize(): the registry holds what load() read
InitIndexer ==
  /\ InitCommon
  /\ disk \in IndexerDisks
  /\ projects = LoadMap(disk)

\* at most two invocations are in flight when a batch or a forced pass starts
NextIndexer ==
  \/ StartAutoIndexing(Hourly)
  \/ (Len(tasks) <= 1 /\ CronFire)
  \/ \E p \in Paths : (Len(tasks) <= 1 /\ ForceReindex(p))
  \/ \E t \in 1..Len(tasks) : SaveMkdirDone(t, TRUE)
  \/ \E t \in 1..Len(tasks) : SaveWriteDone(t, TRUE)
  \/ \E t \in 1..Len(tasks) : \E o \in PassOutcomes(tasks[t].proj.language) : AnalyzeDone(t, o)

SpecIndexer == InitIndexer /\ [][NextIndexer]_vars

-----------------------------------------------------------------------------
(* The reindex_project tool, on registered and unregistered paths *)

\* registry.json when SpecForce starts
ForceDisks ==
  { NoFile,
    File(<< Pending(Discovered("/w/a", "go")) >>),
    File(<< Failed(Discovered("/w/a", "python"), Hour, Counts(0, 0, 0)) >>) }

InitForce ==
  /\ InitCommon
  /\ disk \in ForceDisks
  /\ projects = LoadMap(disk)

NextForce ==
  \/ \E p \in Paths : ForceReindex(p)
  \/ \E p \in ArgPaths : CallRemoveProject(p)
  \/ \E t \in 1..Len(tasks) : SaveMkdirDone(t, TRUE)
  \/ \E t \in 1..Len(tasks) : SaveWriteDone(t, TRUE)
  \/ \E t \in 1..Len(tasks) : \E o \in PassOutcomes(tasks[t].proj.language) : AnalyzeDone(t, o)

SpecForce == InitForce /\ [][NextForce]_vars

-----------------------------------------------------------------------------
(* Indexing passes, and the process restarting from registry.json *)

NextRestart ==
  \/ \E p \in ArgPaths : ForceReindex(p)
  \/ \E t \in 1..Len(tasks) : SaveMkdirDone(t, TRUE)
  \/ \E t \in 1..Len(tasks), ok \in BOOLEAN : SaveWriteDone(t, ok)
  \/ \E t \in 1..Len(tasks) : \E o \in PassOutcomes(tasks[t].proj.language) : AnalyzeDone(t, o)
  \/ Crash
  \/ (Idle /\ CallLoad)
  \/ \E t \in 1..Len(tasks) : LoadReadDone(t)

SpecRestart == InitForce /\ [][NextRestart]_vars

-----------------------------------------------------------------------------
(* ProjectsAnalyzer.handleTool: the tools, initializing on first use *)

ToolNames == {"discover_projects", "list_projects"}

\* what the scanner finds when discover_projects runs it
FoundLists == {<<>>} \cup {<<d>> : d \in DiscoveredSet}

\* the tool proper, projects.ts lines 82-109: list_projects returns what the
\* registry holds, discover_projects adds what the scanner found
RunTool(tk, ctx) ==
  IF tk.kind = "discover_projects" THEN AddDiscovered(tk, ctx)
  ELSE R([tk EXCEPT !.pc = "done"], ctx)

\* handleTool, lines 77-80: without an indexer the call awaits initialize(),
\* whose first await is registry.load()
HandleTool(name, found) ==
  /\ launched < MaxCalls
  /\ name = "list_projects" => found = <<>>
  /\ LET tk == [NewTask(name) EXCEPT !.found = found, !.todo = found]
     IN  IF indexer
           THEN Launch(RunTool(tk, Ctx), lastOp)
           ELSE /\ launched' = launched + 1
                /\ tasks' = Append(tasks, [tk EXCEPT !.pc = "read"])
                /\ UNCHANGED <<projects, isIndexing, debounceTimers, watchers, lastOp>>
  /\ UNCHANGED <<disk, now, replaced, collection, ScannerVars, cronTask, schedules, indexer, lastCall, armed, nextTimer,
                 lastEvent, bursts, calls, earlyCalls>>

\* initialize, lines 43-52: the assignments to this.indexer and this.watcher
\* drop the pair the fields held, with its schedule and its observers
Overwritten ==
  IF indexer THEN Append(replaced, [cronTask |-> cronTask, watchers |-> watchers])
  ELSE replaced

\* initialize, lines 38-55, from the moment readFile settles: load() fills the
\* Map from the file, a new indexer and a new watcher replace the fields, and
\* handleTool goes on to the tool
InitializeReadDone(t) ==
  /\ tasks[t].kind \in ToolNames
  /\ tasks[t].pc = "read"
  /\ indexer' = TRUE
  /\ cronTask' = FALSE
  /\ schedules' = schedules
  /\ replaced' = Overwritten
  /\ Apply(t, RunTool(tasks[t],
                      [projects |-> LoadMap(disk), isIndexing |-> FALSE,
                       debounceTimers |-> [p \in Paths |-> NoTimer], watchers |-> <<>>]),
           Op("load", EmptyObj, lastOp.saved))
  /\ UNCHANGED <<disk, now, collection, ScannerVars, launched, lastCall, armed, nextTimer,
                 lastEvent, bursts, calls, earlyCalls>>

\* the server has constructed ProjectsAnalyzer and nothing has called it
InitTools ==
  /\ InitObjects
  /\ indexer = FALSE
  /\ scanEntries = {}
  /\ fs = <<>> /\ links = {}
  /\ projects = <<>>
  /\ disk \in InitialDisks

NextTools ==
  \/ \E name \in ToolNames, found \in FoundLists : HandleTool(name, found)
  \/ \E t \in 1..Len(tasks) : InitializeReadDone(t)
  \/ \E p \in ArgPaths : (indexer /\ ForceReindex(p))
  \/ \E t \in 1..Len(tasks), ok \in BOOLEAN : SaveMkdirDone(t, ok)
  \/ \E t \in 1..Len(tasks), ok \in BOOLEAN : SaveWriteDone(t, ok)
  \/ \E t \in 1..Len(tasks) : \E o \in PassOutcomes(tasks[t].proj.language) : AnalyzeDone(t, o)

SpecTools == InitTools /\ [][NextTools]_vars

-----------------------------------------------------------------------------
(* ProjectScanner.analyzeDirectory *)

\* String.prototype.endsWith
EndsWith(str, suffix) ==
  /\ Len(str) >= Len(suffix)
  /\ SubSeq(str, Len(str) - Len(suffix) + 1, Len(str)) = suffix

\* e.match(/\.(js|ts|jsx|tsx)$/), line 191
IsJsFile(e) == \E suffix \in {".js", ".ts", ".jsx", ".tsx"} : EndsWith(e, suffix)

\* lines 137-148 and 166-184: the indicators in the order they are pushed
Indicators(entries) ==
  LET Push(name) == IF name \in entries THEN <<name>> ELSE <<>>
  IN  (IF ".vscode" \in entries /\ ".idea" \in entries THEN <<".vscode", ".idea">>
       ELSE Push(".vscode") \o Push(".idea"))
        \o Push(".git")
        \o (IF "go.mod" \in entries THEN <<"go.mod">> ELSE Push("go.sum"))
        \o Push("requirements.txt") \o Push("setup.py") \o Push("Pipfile")
        \o Push("pyproject.toml")
        \o Push("package.json") \o Push("tsconfig.json")

\* lines 160-195: languageScores
LanguageScores(entries) ==
  [go |-> (IF "go.mod" \in entries \/ "go.sum" \in entries THEN 10 ELSE 0)
            + Cardinality({e \in entries : EndsWith(e, ".go")}),
   python |-> (IF {"requirements.txt", "setup.py", "Pipfile", "pyproject.toml"} \cap entries # {}
                 THEN 10 ELSE 0)
                + Cardinality({e \in entries : EndsWith(e, ".py")}),
   nodejs |-> (IF "package.json" \in entries \/ "tsconfig.json" \in entries THEN 10 ELSE 0)
                + Cardinality({e \in entries : IsJsFile(e)})]

\* Math.max, lines 198-202
MaxScore(languageScores) ==
  CHOOSE m \in {languageScores.go, languageScores.python, languageScores.nodejs} :
    \A n \in {languageScores.go, languageScores.python, languageScores.nodejs} : n <= m

Language_TopScorer(languageScores) ==
  IF languageScores.go = MaxScore(languageScores) THEN "go"
  ELSE IF languageScores.python = MaxScore(languageScores) THEN "python"
  ELSE "nodejs"

\* lines 206-218
Language(languageScores) ==
  LET activeLanguages ==
        Cardinality({l \in {"go", "python", "nodejs"} : languageScores[l] > 0})
  IN  IF activeLanguages > 1 THEN "mixed"
      ELSE IF languageScores.go = MaxScore(languageScores) THEN "go"
      ELSE IF languageScores.python = MaxScore(languageScores) THEN "python"
      ELSE "nodejs"

\* analyzeDirectory returned null
NotAProject == [kind |-> "null"]

AnalyzeDirectory_AnyCode(dir, entries) ==
  IF MaxScore(LanguageScores(entries)) = 0 THEN NotAProject
  ELSE [kind |-> "project", path |-> dir, name |-> Basename(dir),
        language |-> Language(LanguageScores(entries)),
        ide |-> IF ".vscode" \in entries /\ ".idea" \in entries THEN "multiple"
                ELSE IF ".vscode" \in entries THEN "vscode"
                ELSE IF ".idea" \in entries THEN "jetbrains" ELSE "none",
        hasGit |-> ".git" \in entries,
        lastModified |-> Epoch - Hour,
        indicators |-> Indicators(entries)]

\* analyzeDirectory, lines 122-241
AnalyzeDirectory(dir, entries) ==
  IF MaxScore(LanguageScores(entries)) = 0 THEN NotAProject
  ELSE IF Len(Indicators(entries)) = 0 THEN NotAProject
  ELSE [kind |-> "project", path |-> dir, name |-> Basename(dir),
        language |-> Language(LanguageScores(entries)),
        ide |-> IF ".vscode" \in entries /\ ".idea" \in entries THEN "multiple"
                ELSE IF ".vscode" \in entries THEN "vscode"
                ELSE IF ".idea" \in entries THEN "jetbrains" ELSE "none",
        hasGit |-> ".git" \in entries,
        lastModified |-> Epoch - Hour,
        indicators |-> Indicators(entries)]

\* the names a directory listing is made of
EntryNames ==
  {".vscode", ".idea", ".git", "go.mod", "go.sum", "requirements.txt", "setup.py",
   "Pipfile", "pyproject.toml", "package.json", "tsconfig.json",
   "main.go", "util.go", "app.py", "index.ts", "README.md"}

\* scanDirectory, lines 86-89, and quickDiscoverProjects, lines 314-315:
\* readdir has returned and analyzeDirectory is called with the names
Analyze ==
  /\ scanResult = NotAnalyzed
  /\ scanResult' = AnalyzeDirectory("/w/a", scanEntries)
  /\ UNCHANGED <<projects, disk, now, tasks, launched, lastOp, replaced, collection, scanEntries, fs, links, discovered,
                 IndexerVars, WatcherVars>>

\* a scanner and the listing of the directory it is about to analyze
InitScanner ==
  /\ InitObjects
  /\ indexer = FALSE
  /\ projects = <<>>
  /\ disk = NoFile
  /\ fs = <<>> /\ links = {}
  /\ scanEntries \in SUBSET EntryNames

NextScanner == Analyze

SpecScanner == InitScanner /\ [][NextScanner]_vars

-----------------------------------------------------------------------------
(* ProjectScanner.discoverProjects and quickDiscoverProjects on a directory tree *)

\* os.homedir()
HomeDir == "/h"

\* the constructor's searchPaths, lines 26-37
searchPaths ==
  <<"/h/Desktop", "/h/Documents", "/h/Projects", "/h/Development", "/h/dev", "/h/workspace",
    "/h/GolandProjects", "/h/PycharmProjects", "/h/IdeaProjects", HomeDir>>

\* the directories that exist, each with its subdirectories in readdir order
Tree ==
  [d \in {"/h", "/h/dev", "/h/dev/p", "/h/dev/p/sub", "/h/x", "/h/x/y", "/h/x/y/z",
           "/h/x/node_modules"} |->
     CASE d = "/h" -> <<"dev", "x">>
       [] d = "/h/dev" -> <<"p">>
       [] d = "/h/dev/p" -> <<"sub">>
       [] d = "/h/x" -> <<"node_modules", "y">>
       [] d = "/h/x/y" -> <<"z">>
       [] OTHER -> <<>>]

Dirs == DOMAIN Tree

\* readdir rejects for the directory
CannotRead == {"EACCES"}

Readable(f, dir) == dir \in DOMAIN f /\ f[dir] # CannotRead

\* the entries readdir returns: the files and markers of the directory and its subdirectories
DirEntries(f, dir) == f[dir] \cup {Tree[dir][i] : i \in 1..Len(Tree[dir])}

skipDirs ==
  {"node_modules", ".git", "dist", "build", "target", "__pycache__", ".venv", "venv", "env",
   ".env", "vendor", ".next", ".cache", "tmp", "temp", ".npm", ".yarn", "coverage",
   ".pytest_cache", ".mypy_cache", ".tox", "eggs", ".eggs", "lib", "lib64", "parts", "sdist",
   "wheels", ".idea", ".vscode"}

\* a scan that enters every directory
ShouldSkipDirectory_Never(name) == FALSE

\* shouldSkipDirectory, lines 258-293
ShouldSkipDirectory(name) == name \in skipDirs \/ SubSeq(name, 1, 1) = "."

\* a project as the scanner returns it
Project(r) == [path |-> r.path, name |-> r.name, language |-> r.language, ide |-> r.ide,
               hasGit |-> r.hasGit, lastModified |-> r.lastModified,
               indicators |-> r.indicators]

\* p is q or lies below q
HasPrefix(p, q) == p = q \/ (Len(p) > Len(q) /\ SubSeq(p, 1, Len(q) + 1) = q \o "/")

\* getRealPath, lines 246-253: realpath resolves the link the path goes
\* through; a path that does not exist is returned as it is
RealPath(ln, p) ==
  IF \E l \in ln : HasPrefix(p, l.link)
    THEN LET l == CHOOSE l \in ln : HasPrefix(p, l.link)
         IN  l.target \o SubSeq(p, Len(l.link) + 1, Len(p))
    ELSE p

RECURSIVE ScanDirectory(_, _, _, _, _, _)
RECURSIVE ScanSubDirs(_, _, _, _, _, _, _, _)

\* scanDirectory, lines 98-111: the loop over the entries that are
\* directories; an entry that is a symbolic link is not one (line 99)
ScanSubDirs(dir, names, maxDepth, currentDepth, seen, f, ln, acc) ==
  IF names = <<>> THEN [projects |-> acc.projects, seen |-> seen, classified |-> acc.classified]
  ELSE IF ShouldSkipDirectory(Head(names))
    THEN ScanSubDirs(dir, Tail(names), maxDepth, currentDepth, seen, f, ln, acc)
    ELSE LET sub == ScanDirectory(dir \o "/" \o Head(names), maxDepth, currentDepth + 1, seen,
                                  f, ln)
         IN  ScanSubDirs(dir, Tail(names), maxDepth, currentDepth, sub.seen, f, ln,
                         [projects |-> acc.projects \o sub.projects,
                          classified |-> acc.classified \o sub.classified])

\* scanDirectory, lines 70-117; classified is the observation of the calls
\* of analyzeDirectory (line 90), in order
ScanDirectory(dir, maxDepth, currentDepth, seen, f, ln) ==
  LET realPath == RealPath(ln, dir)
      here == <<[dir |-> dir, realPath |-> realPath, depth |-> currentDepth]>>
  IN  IF currentDepth > maxDepth THEN [projects |-> <<>>, seen |-> seen, classified |-> <<>>]
      ELSE IF realPath \in seen THEN [projects |-> <<>>, seen |-> seen, classified |-> <<>>]
      ELSE IF ~Readable(f, realPath)
        THEN [projects |-> <<>>, seen |-> seen \cup {realPath}, classified |-> <<>>]
      ELSE LET project == AnalyzeDirectory(dir, DirEntries(f, realPath))
           IN  IF project # NotAProject
                 THEN [projects |-> <<Project(project)>>, seen |-> seen \cup {realPath},
                       classified |-> here]
                 ELSE ScanSubDirs(dir, Tree[realPath], maxDepth, currentDepth,
                                  seen \cup {realPath}, f, ln,
                                  [projects |-> <<>>, classified |-> here])

RECURSIVE ScanRoots(_, _, _, _, _, _)
\* discoverProjects, lines 49-62: the loop over the search paths
ScanRoots(roots, maxDepth, seen, f, ln, acc) ==
  IF roots = <<>> THEN acc
  ELSE LET found == ScanDirectory(Head(roots), maxDepth, 0, seen, f, ln)
       IN  ScanRoots(Tail(roots), maxDepth, found.seen, f, ln,
                     [projects |-> acc.projects \o found.projects,
                      classified |-> acc.classified \o found.classified])

\* discoverProjects, lines 43-65, with the observation of what it classified
ScanAll(maxDepth, f, ln) ==
  ScanRoots(searchPaths, maxDepth, {}, f, ln, [projects |-> <<>>, classified |-> <<>>])

\* discoverProjects, lines 43-65
DiscoverProjects(maxDepth, f, ln) == ScanAll(maxDepth, f, ln).projects

RECURSIVE Find(_, _, _)
RECURSIVE FindBelow(_, _, _, _)

FindBelow(dir, names, depth, f) ==
  IF names = <<>> THEN <<>>
  ELSE Find(dir \o "/" \o Head(names), depth + 1, f) \o FindBelow(dir, Tail(names), depth, f)

\* find "$HOME" -maxdepth 4 -type d ( -name .vscode -o -name .idea ), lines 303-306:
\* the directories holding a marker, one line per marker, in the order find
\* walks the tree; find passes over what it cannot read
Find(dir, depth, f) ==
  IF depth + 1 > 4 \/ ~Readable(f, dir) THEN <<>>
  ELSE (IF ".idea" \in f[dir] THEN <<dir>> ELSE <<>>)
         \o (IF ".vscode" \in f[dir] THEN <<dir>> ELSE <<>>)
         \o FindBelow(dir, Tree[dir], depth, f)

RECURSIVE AnalyzeMarkers(_, _, _)
\* quickDiscoverProjects, lines 310-317: the loop over the markers; readdir
\* of a directory that cannot be read any more throws
AnalyzeMarkers(markers, f, acc) ==
  IF markers = <<>> THEN [threw |-> FALSE, projects |-> acc]
  ELSE IF ~Readable(f, Head(markers)) THEN [threw |-> TRUE, projects |-> acc]
  ELSE LET project == AnalyzeDirectory(Head(markers), DirEntries(f, Head(markers)))
       IN  AnalyzeMarkers(Tail(markers), f,
                          IF project # NotAProject THEN Append(acc, Project(project)) ELSE acc)

\* quickDiscoverProjects, lines 298-327: find ran on the tree as it was (before),
\* the loop and the fallback run on the tree as it is (f)
QuickDiscoverProjects(before, f, ln) ==
  LET quick == AnalyzeMarkers(Find(HomeDir, 0, before), f, <<>>)
  IN  IF quick.threw THEN DiscoverProjects(2, f, ln) ELSE quick.projects

\* what a directory of the tree can hold
Listings ==
  { {}, {"main.go"}, {".vscode", "go.mod", "main.go"}, CannotRead }

\* discover_projects with quick = false, projects.ts lines 117-127
Discover(maxDepth) ==
  /\ discovered = NotScanned
  /\ discovered' = [mode |-> "full", projects |-> DiscoverProjects(maxDepth, fs, links),
                     maxDepth |-> maxDepth, markers |-> <<>>,
                     classified |-> ScanAll(maxDepth, fs, links).classified]
  /\ UNCHANGED <<projects, disk, now, tasks, launched, lastOp, replaced, collection, scanEntries, scanResult, fs, links,
                 IndexerVars, WatcherVars>>

\* discover_projects with quick = true; the directories in gone stop being
\* readable after find has listed the markers
QuickDiscover(gone) ==
  /\ discovered = NotScanned
  /\ fs' = [d \in DOMAIN fs |-> IF d \in gone THEN CannotRead ELSE fs[d]]
  /\ discovered' = [mode |-> "quick", projects |-> QuickDiscoverProjects(fs, fs', links),
                     maxDepth |-> 0, markers |-> Find(HomeDir, 0, fs), classified |-> <<>>]
  /\ UNCHANGED <<projects, disk, now, tasks, launched, lastOp, replaced, collection, scanEntries, scanResult, links,
                 IndexerVars, WatcherVars>>

InitDiscovery ==
  /\ InitObjects
  /\ indexer = FALSE
  /\ projects = <<>>
  /\ disk = NoFile
  /\ scanEntries = {}
  /\ fs \in [Dirs -> Listings]
  /\ fs["/h/x/node_modules"] = {}
  /\ links = {}

NextDiscovery ==
  \/ \E maxDepth \in {2, 3} : Discover(maxDepth)
  \/ \E gone \in {{}} \cup {{d} : d \in Dirs} : QuickDiscover(gone)

SpecDiscovery == InitDiscovery /\ [][NextDiscovery]_vars

-----------------------------------------------------------------------------
(* discover_projects on a directory tree, followed by the scheduled batch *)

\* the source files and manifests of two project directories: one language,
\* and two languages
OneLanguage ==
  {{".vscode", "go.mod", "a.go", "b.go", "c.go"},
   {".idea", "requirements.txt", "a.py", "b.py", "c.py"}}

TwoLanguages ==
  {{".vscode", "go.mod", "main.go", "package.json", "index.ts"},
   {".idea", "go.mod", "main.go", "requirements.txt", "app.py"}}

\* discoverProjects, projects.ts lines 115-142, from the moment the scanner
\* has returned its list; the one call goes on once
AddScanned ==
  /\ discovered # NotScanned
  /\ projects = <<>>
  /\ HandleTool("discover_projects", discovered.projects)

\* ProjectsAnalyzer is initialized, the registry is empty, and the tree holds
\* the two directories
InitEndToEnd ==
  /\ InitObjects
  /\ indexer = TRUE
  /\ projects = <<>>
  /\ disk = NoFile
  /\ scanEntries = {}
  /\ links = {}
  /\ \E one \in OneLanguage, two \in TwoLanguages :
       fs = [d \in Dirs |-> IF d = "/h/dev/p" THEN one ELSE IF d = "/h/x" THEN two ELSE {}]

NextEndToEnd ==
  \/ \E maxDepth \in {2, 3} : Discover(maxDepth)
  \/ QuickDiscover({})
  \/ AddScanned
  \/ StartAutoIndexing(Hourly)
  \/ CronFire
  \/ \E t \in 1..Len(tasks) : SaveMkdirDone(t, TRUE)
  \/ \E t \in 1..Len(tasks) : SaveWriteDone(t, TRUE)
  \/ \E t \in 1..Len(tasks) : \E o \in PassOutcomes(tasks[t].proj.language) : AnalyzeDone(t, o)

SpecEndToEnd == InitEndToEnd /\ [][NextEndToEnd]_vars

-----------------------------------------------------------------------------
(* ProjectFileWatcher *)

\* String.prototype.includes
Includes(s, sub) ==
  \E i \in 1..(Len(s) - Len(sub) + 1) : SubSeq(s, i, i + Len(sub) - 1) = sub

\* path.extname: from the last dot of the last path segment, "" when that
\* segment has no dot or only a leading one
ExtName(filename) ==
  LET base == SubSeq(filename, LastIndexOf(filename, "/") + 1, Len(filename))
      dot == LastIndexOf(base, ".")
  IN  IF dot <= 1 THEN "" ELSE SubSeq(base, dot, Len(base))

ignorePaths ==
  {"node_modules", ".git", "dist", "build", "target", "__pycache__", ".venv", "venv",
   "env", "vendor", ".next", ".cache", "tmp", "temp", "coverage", ".pytest_cache",
   ".mypy_cache", ".idea", ".vscode"}

\* shouldIgnoreFile, lines 112-136
ShouldIgnoreFile(filename) == \E ignorePath \in ignorePaths : Includes(filename, ignorePath)

sourceExtensions(language) ==
  CASE language = "go" -> {".go"}
    [] language = "python" -> {".py"}
    [] language = "nodejs" -> {".js", ".ts", ".jsx", ".tsx", ".mjs", ".cjs"}
    [] language = "mixed" -> {".go", ".py", ".js", ".ts", ".jsx", ".tsx", ".mjs", ".cjs"}
    [] OTHER -> {}

\* isSourceFile, lines 141-153
IsSourceFile(filename, language) == ExtName(filename) \in sourceExtensions(language)

\* the names fs.watch reports, relative to the project directory
Filenames == {"main.go", "README.md", "cmd/environment.go"}

\* debounceReindex, lines 87-107: the timer of the path is cleared and a new one set
DebounceReindex(project) ==
  LET existingTimer == debounceTimers[project.path]
      cleared == IF existingTimer # NoTimer THEN MapDelete(armed, existingTimer) ELSE armed
      newBurst == lastEvent[project.path] = 0 \/ now - lastEvent[project.path] >= debounceDelay
  IN  /\ armed' = MapSet(cleared, nextTimer, [path |-> project.path, due |-> now + debounceDelay])
      /\ debounceTimers' = [debounceTimers EXCEPT ![project.path] = nextTimer]
      /\ nextTimer' = nextTimer + 1
      /\ lastEvent' = [lastEvent EXCEPT ![project.path] = now]
      /\ bursts' = [bursts EXCEPT ![project.path] = IF newBurst THEN @ + 1 ELSE @]

\* handleFileChange, lines 61-82, called by the observer of path p (lines 44-48)
HandleFileChange(p, filename) ==
  /\ launched < MaxEvents
  /\ MapHas(watchers, p)
  /\ launched' = launched + 1
  /\ LET project == MapGet(watchers, p)
     IN  IF ShouldIgnoreFile(filename) \/ ~IsSourceFile(filename, project.language)
           THEN UNCHANGED <<debounceTimers, armed, nextTimer, lastEvent, bursts>>
           ELSE DebounceReindex(project)
  /\ UNCHANGED <<projects, disk, now, replaced, collection, ScannerVars, tasks, lastOp, IndexerVars, watchers,
                 calls, earlyCalls>>

\* the timer callback, lines 95-104, up to the first await that suspends:
\* reindexProject (scanner.ts lines 802-809) throws for an unknown path and the
\* finally clause runs at once, else indexProject starts
TimerFire(h) ==
  /\ MapHas(armed, h)
  /\ now >= MapGet(armed, h).due
  /\ armed' = MapDelete(armed, h)
  /\ LET path == MapGet(armed, h).path
     IN  /\ calls' = [calls EXCEPT ![path] = @ + 1]
         /\ earlyCalls' = [earlyCalls EXCEPT
                             ![path] = IF now - lastEvent[path] < debounceDelay THEN @ + 1 ELSE @]
         /\ IF MapHas(projects, path)
              THEN Start(StartPass(NewTask("timer"), Ctx, ProjOf(GetProject(projects, path)), now),
                         lastOp)
              ELSE /\ debounceTimers' = [debounceTimers EXCEPT ![path] = NoTimer]
                   /\ UNCHANGED <<projects, tasks, isIndexing, watchers, lastOp>>
  /\ UNCHANGED <<disk, now, replaced, collection, ScannerVars, launched, cronTask, schedules, indexer, lastCall, nextTimer, lastEvent, bursts>>

\* startWatchingAll, lines 21-28
StartWatchingAll ==
  /\ watchers' = WatchAll(watchers, MapValues(projects))
  /\ UNCHANGED <<projects, disk, now, replaced, collection, ScannerVars, tasks, launched, lastOp, IndexerVars, debounceTimers,
                 armed, nextTimer, lastEvent, bursts, calls, earlyCalls>>

\* stopWatchingProject, lines 158-172, for every watched path (stopWatchingAll, lines 177-183)
StopWatchingAll ==
  LET watched == MapKeys(watchers)
      pending == {debounceTimers[p] : p \in watched} \ {NoTimer}
  IN  /\ watchers' = <<>>
      /\ armed' = SelectSeq(armed, LAMBDA e : e.key \notin pending)
      /\ debounceTimers' = [p \in Paths |-> IF p \in watched THEN NoTimer ELSE debounceTimers[p]]
      /\ UNCHANGED <<projects, disk, now, replaced, collection, ScannerVars, tasks, launched, lastOp, IndexerVars,
                     nextTimer, lastEvent, bursts, calls, earlyCalls>>

\* registry.json when SpecWatcher starts
WatcherDisks ==
  { File(<< Completed(Discovered("/w/a", "go"), Hour, Counts(1, 1, 0)),
            Completed(Discovered("/w/b", "python"), Hour, Counts(1, 0, 0)) >>) }

\* after initialize() and startBackgroundServices() (projects.ts lines 38-72):
\* the registry is loaded and every project in it is watched
InitWatcher ==
  /\ scanEntries = {}
  /\ scanResult = NotAnalyzed
  /\ fs = <<>> /\ links = {}
  /\ discovered = NotScanned
  /\ now = Epoch
  /\ tasks = <<>>
  /\ launched = 0
  /\ isIndexing = FALSE
  /\ cronTask = FALSE
  /\ schedules = <<>>
  /\ indexer = TRUE
  /\ replaced = <<>>
  /\ collection = {}
  /\ disk \in WatcherDisks
  /\ projects = LoadMap(disk)
  /\ watchers = WatchAll(<<>>, MapValues(projects))
  /\ debounceTimers = [p \in Paths |-> NoTimer]
  /\ armed = <<>>
  /\ nextTimer = NoTimer + 1
  /\ lastEvent = [p \in Paths |-> 0]
  /\ bursts = [p \in Paths |-> 0]
  /\ calls = [p \in Paths |-> 0]
  /\ earlyCalls = [p \in Paths |-> 0]
  /\ lastCall = [kind |-> "none", path |-> "", result |-> "none"]
  /\ lastOp = [op |-> "none", arg |-> EmptyObj, rep |-> FALSE, tog |-> FALSE, saved |-> FALSE]

NextWatcher ==
  \/ \E p \in Paths, filename \in Filenames : HandleFileChange(p, filename)
  \/ \E h \in MapKeys(armed) : TimerFire(h)
  \/ StartWatchingAll
  \/ StopWatchingAll
  \/ \E t \in 1..Len(tasks) : SaveMkdirDone(t, TRUE)
  \/ \E t \in 1..Len(tasks) : SaveWriteDone(t, TRUE)
  \/ \E t \in 1..Len(tasks) : \E o \in PassOutcomes(tasks[t].proj.language) : AnalyzeDone(t, o)
  \/ Tick(HalfWindow, MaxHalves)

SpecWatcher == InitWatcher /\ [][NextWatcher]_vars

-----------------------------------------------------------------------------
(* ProjectFileWatcher installing observers, fs.watch throwing for some paths *)

WatchProjectOn_Uncaught(w, project, unwatchable) ==
  IF MapHas(w, project.path) THEN [watchers |-> w, threw |-> FALSE]
  ELSE IF project.path \in unwatchable THEN [watchers |-> w, threw |-> TRUE]
  ELSE [watchers |-> WatchProject(w, project), threw |-> FALSE]

\* watchProject, file-watcher.ts lines 33-56, when fs.watch (line 41) throws
\* for the paths in unwatchable: the catch of lines 53-55 logs and returns
WatchProjectOn(w, project, unwatchable) ==
  IF MapHas(w, project.path) THEN [watchers |-> w, threw |-> FALSE]
  ELSE IF project.path \in unwatchable THEN [watchers |-> w, threw |-> FALSE]
  ELSE [watchers |-> WatchProject(w, project), threw |-> FALSE]

RECURSIVE WatchAllOn(_, _, _)
\* startWatchingAll, lines 25-27: the loop ends when a call throws
WatchAllOn(w, ps, unwatchable) ==
  IF ps = <<>> THEN [watchers |-> w, threw |-> FALSE]
  ELSE LET r == WatchProjectOn(w, Head(ps), unwatchable)
       IN  IF r.threw THEN r ELSE WatchAllOn(r.watchers, Tail(ps), unwatchable)

Outcome(r) == IF r.threw THEN "threw" ELSE "returned"

\* startWatchingAll, lines 21-28
StartWatchingAllOn(unwatchable) ==
  /\ LET r == WatchAllOn(watchers, MapValues(projects), unwatchable)
     IN  /\ watchers' = r.watchers
         /\ lastCall' = [kind |-> "startWatchingAll", path |-> "", result |-> Outcome(r)]
  /\ UNCHANGED <<projects, disk, now, replaced, collection, ScannerVars, tasks, launched, lastOp, isIndexing, cronTask, schedules,
                 indexer, debounceTimers, armed, nextTimer, lastEvent, bursts, calls, earlyCalls>>

\* watchProject called for one registry entry (projects.ts lines 135-139)
CallWatchProject(p, unwatchable) ==
  /\ MapHas(projects, p)
  /\ LET r == WatchProjectOn(watchers, MapGet(projects, p), unwatchable)
     IN  /\ watchers' = r.watchers
         /\ lastCall' = [kind |-> "watchProject", path |-> p, result |-> Outcome(r)]
  /\ UNCHANGED <<projects, disk, now, replaced, collection, ScannerVars, tasks, launched, lastOp, isIndexing, cronTask, schedules,
                 indexer, debounceTimers, armed, nextTimer, lastEvent, bursts, calls, earlyCalls>>

\* after initialize(): the registry is loaded and nothing is watched yet
InitInstall ==
  /\ InitCommon
  /\ disk \in WatcherDisks
  /\ projects = LoadMap(disk)

NextInstall ==
  \/ \E unwatchable \in SUBSET Paths : StartWatchingAllOn(unwatchable)
  \/ \E p \in Paths, unwatchable \in SUBSET Paths : CallWatchProject(p, unwatchable)
  \/ StopWatchingAll
  \/ \E p \in Paths, filename \in Filenames : HandleFileChange(p, filename)

SpecInstall == InitInstall /\ [][NextInstall]_vars

-----------------------------------------------------------------------------
(* The server starting: initialize() at module load, and the first tool calls *)

\* index.ts lines 62-63: projectsAnalyzer.initialize() is called when the
\* module loads and awaits registry.load()
Startup ==
  /\ launched = 0
  /\ launched' = 1
  /\ tasks' = Append(tasks, [NewTask("startup") EXCEPT !.pc = "read"])
  /\ UNCHANGED <<projects, disk, now, replaced, collection, ScannerVars, lastOp, IndexerVars, WatcherVars>>

\* the startup initialize() from the moment readFile settles (projects.ts
\* lines 40-54), followed by startBackgroundServices (lines 60-72) in the
\* then-callback of index.ts lines 63-67
StartupReadDone(t) ==
  /\ tasks[t].kind = "startup"
  /\ tasks[t].pc = "read"
  /\ indexer' = TRUE
  /\ cronTask' = TRUE
  /\ schedules' = Append(schedules, Hourly)
  /\ replaced' = Overwritten
  /\ Apply(t, R([tasks[t] EXCEPT !.pc = "done"],
                [projects |-> LoadMap(disk), isIndexing |-> FALSE,
                 debounceTimers |-> [p \in Paths |-> NoTimer],
                 watchers |-> WatchAll(<<>>, MapValues(LoadMap(disk)))]),
           Op("load", EmptyObj, lastOp.saved))
  /\ UNCHANGED <<disk, now, collection, ScannerVars, launched, lastCall, armed, nextTimer,
                 lastEvent, bursts, calls, earlyCalls>>

\* the stop_auto_indexing tool, projects.ts lines 357-363, on the indexer the
\* field holds
StopAutoIndexingTool ==
  /\ indexer
  /\ cronTask' = StopAutoIndexingOn(cronTask, schedules).cronTask
  /\ schedules' = StopAutoIndexingOn(cronTask, schedules).schedules
  /\ lastCall' = [kind |-> "stop_auto_indexing", path |-> "", result |-> "returned"]
  /\ UNCHANGED <<projects, disk, now, replaced, collection, ScannerVars, tasks, launched, isIndexing,
                 indexer, lastOp, WatcherVars>>

\* the module has loaded and main() has connected the transport
InitStartup ==
  /\ InitObjects
  /\ indexer = FALSE
  /\ scanEntries = {}
  /\ fs = <<>> /\ links = {}
  /\ projects = <<>>
  /\ disk \in InitialDisks \cup WatcherDisks

NextStartup ==
  \/ Startup
  \/ \E t \in 1..Len(tasks) : StartupReadDone(t)
  \/ \E name \in ToolNames, found \in FoundLists : (launched > 0 /\ HandleTool(name, found))
  \/ \E t \in 1..Len(tasks) : InitializeReadDone(t)
  \/ StopAutoIndexingTool
  \/ (indexer /\ StopWatchingAll)
  \/ \E t \in 1..Len(tasks) : SaveMkdirDone(t, TRUE)
  \/ \E t \in 1..Len(tasks) : SaveWriteDone(t, TRUE)

SpecStartup == InitStartup /\ [][NextStartup]_vars

-----------------------------------------------------------------------------
(* Batch, forced and watcher-triggered passes together with re-discovery *)

\* what the scanner returns to discover_projects: a path the registry may
\* hold already, and a new one
Rediscovered == {<<Discovered("/w/a", "go"), Discovered("/w/b", "python")>>}

InitLifecycle ==
  /\ InitCommon
  /\ disk \in ForceDisks
  /\ projects = LoadMap(disk)

\* at most two invocations are in flight at a time
MayStart == Len(tasks) <= 1

NextLifecycle ==
  \/ StartAutoIndexing(Hourly)
  \/ (MayStart /\ CronFire)
  \/ \E p \in Paths : (MayStart /\ ForceReindex(p))
  \/ \E found \in Rediscovered :
       (MayStart /\ launched < MaxLaunch /\ HandleTool("discover_projects", found))
  \/ \E p \in ArgPaths : (launched < MaxLaunch /\ HandleFileChange(p, "main.go"))
  \/ \E h \in MapKeys(armed) : (MayStart /\ TimerFire(h))
  \/ Tick(debounceDelay, 1)
  \/ \E t \in 1..Len(tasks) : SaveMkdirDone(t, TRUE)
  \/ \E t \in 1..Len(tasks) : SaveWriteDone(t, TRUE)
  \/ \E t \in 1..Len(tasks) : \E o \in PassOutcomes(tasks[t].proj.language) : AnalyzeDone(t, o)

SpecLifecycle == InitLifecycle /\ [][NextLifecycle]_vars


-----------------------------------------------------------------------------
(* Properties of ProjectRegistry, checked under SpecRegistry *)

\* this step is a call of addProject(d)
AddStep(d) == lastOp'.op = "add" /\ lastOp'.tog # lastOp.tog /\ lastOp'.arg = d

\* this step is a load() that completes
LoadStep == lastOp'.op = "load" /\ lastOp'.tog # lastOp.tog

Entries(m, k) == {i \in 1..Len(m) : m[i].key = k}

\* C7: addProject of a registered path stores the discovery-derived fields of
\* its argument and leaves every lifecycle field of the entry as it was:
\* indexStatus, lastIndexed, the three counts and the error message.
C7_UpsertKeepsLifecycle ==
  [][\A d \in DiscoveredSet :
       (AddStep(d) /\ MapHas(projects, d.path)) =>
         /\ Only(MapGet(projects', d.path), DiscoveryKeys) = d
         /\ Only(MapGet(projects', d.path), LifecycleKeys)
              = Only(MapGet(projects, d.path), LifecycleKeys)]_vars

\* C8: a second addProject(d) right after addProject(d) changes nothing: the
\* Map, and with it every lifecycle field, is as the first call left it, and
\* the Map holds exactly one entry for d.path.
C8_UpsertIdempotent ==
  [][\A d \in DiscoveredSet :
       (AddStep(d) /\ lastOp'.rep) =>
         /\ projects' = projects
         /\ Cardinality(Entries(projects', d.path)) = 1]_vars

C8_Witness ==
  /\ lastOp.op = "add"
  /\ lastOp.rep
  /\ MapHas(projects, lastOp.arg.path)
  /\ MapGet(projects, lastOp.arg.path).indexStatus = "completed"
  /\ Has(MapGet(projects, lastOp.arg.path), "lastIndexed")

-----------------------------------------------------------------------------
(* Batches and passes *)

Batches == {t \in 1..Len(tasks) : tasks[t].kind = "batch"}

RunningPasses == {t \in 1..Len(tasks) : tasks[t].kind \in {"batch", "force", "timer"}}

LogPaths(tk) == [i \in 1..Len(tk.log) |-> tk.log[i].path]

TodoPaths(tk) == [i \in 1..Len(tk.todo) |-> tk.todo[i].path]

\* the step is an invocation of indexPendingProjects
BatchCall == launched' = launched + 1 /\ lastCall'.kind = "batch"

\* C3: at no point are two batches active; a batch holds the in-flight flag
\* from its first step on, before it suspends; an invocation of
\* indexPendingProjects that finds the flag set returns at once, starts no
\* pass, changes no registry entry and nothing on disk, and leaves the flag set.
C3_BatchSingleFlight ==
  [][/\ Cardinality(Batches') <= 1
     /\ (Batches' # {} => isIndexing')
     /\ (BatchCall /\ isIndexing) =>
          /\ lastCall'.result = "skipped"
          /\ tasks' = tasks
          /\ projects' = projects
          /\ disk' = disk
          /\ isIndexing']_vars

\* a batch is running and a second invocation has just been turned away
C3_Witness ==
  /\ lastCall.kind = "batch"
  /\ lastCall.result = "skipped"
  /\ Batches # {}
  /\ isIndexing

\* C4: a project whose analyzer or storage call threw during its pass in a
\* batch ends the pass failed, and a project whose calls all returned ends it
\* completed.
C4_PartialFailureIsolation ==
  \A t \in Batches : \A i \in 1..Len(tasks[t].log) :
    LET e == tasks[t].log[i]
    IN  e.status # "running" => e.status = (IF e.threw THEN "failed" ELSE "completed")

\* C5: a batch that acquires the flag visits exactly the projects
\* getProjectsNeedingIndex() returned when it started, each once and in that
\* order, whatever happened in the passes before; the flag is released only
\* when all of them have been visited.
C5_BatchVisitsSnapshot ==
  [][/\ (BatchCall /\ ~isIndexing) =>
          LET sel == GetProjectsNeedingIndex(projects, now)
          IN  IF sel = <<>> THEN tasks' = tasks /\ lastCall'.result = "returned"
              ELSE /\ Len(tasks') = Len(tasks) + 1
                   /\ tasks'[Len(tasks')].snapshot = [i \in 1..Len(sel) |-> sel[i].path]
     /\ \A t \in Batches' :
          /\ LogPaths(tasks'[t]) \o TodoPaths(tasks'[t]) = tasks'[t].snapshot
          /\ tasks'[t].log # <<>>
     /\ (isIndexing /\ ~isIndexing') =>
          \E t \in Batches : /\ tasks[t].todo = <<>>
                             /\ LogPaths(tasks[t]) = tasks[t].snapshot]_vars

\* the first pass of a batch threw and the batch is in the pass of its second project
C5_Witness ==
  \E t \in Batches :
    /\ Len(tasks[t].snapshot) = 2
    /\ Len(tasks[t].log) = 2
    /\ tasks[t].log[1].threw

\* C6: the projects a batch takes from getProjectsNeedingIndex() are exactly
\* the registered ones that never completed a pass, or whose last pass failed
\* whatever their timestamp, or whose last success is more than 24 hours old.
C6_StalenessSelection ==
  [][(BatchCall /\ ~isIndexing) =>
       LET NeverCompleted(p) == "lastIndexed" \notin DOMAIN p
           LastPassFailed(p) == p.indexStatus = "failed"
           LastSuccessOlderThanADay(p) ==
             "lastIndexed" \in DOMAIN p /\ now - p.lastIndexed > 24 * Hour
           due == {k \in MapKeys(projects) :
                     LET p == MapGet(projects, k)
                     IN  \/ NeverCompleted(p)
                         \/ LastPassFailed(p)
                         \/ LastSuccessOlderThanADay(p)}
       IN  IF due = {} THEN tasks' = tasks
           ELSE LET got == tasks'[Len(tasks')].snapshot
                IN  /\ {got[i] : i \in 1..Len(got)} = due
                    /\ Len(got) = Cardinality(due)]_vars

\* a batch has left out a project completed exactly 24 hours ago, or has taken
\* a failed project that was indexed an hour ago
C6_Witness ==
  \E t \in Batches :
    \/ /\ tasks[t].snapshot = <<"/w/a">>
       /\ MapHas(projects, "/w/b")
       /\ MapGet(projects, "/w/b").indexStatus = "completed"
       /\ now - MapGet(projects, "/w/b").lastIndexed = ONE_DAY
    \/ /\ tasks[t].snapshot = <<"/w/a", "/w/b">>
       /\ tasks[t].log = <<[path |-> "/w/a", threw |-> FALSE, status |-> "running"]>>
       /\ tasks[t].pc = "mkdir"
       /\ now - MapGet(projects, "/w/a").lastIndexed = Hour

\* C10: at any time at most one indexing pass is running, whichever of the
\* scheduled batch, a debounce timer and a forced reindex started it.
C10_SinglePass == Cardinality(RunningPasses) <= 1

-----------------------------------------------------------------------------
(* Debounce *)

\* C1: the qualifying events of a project that follow one another with gaps
\* shorter than the debounce window make one burst, and a burst gets exactly
\* one reindex call: the watcher never makes more calls for a project than
\* the project has had bursts, and none for a project without events.
C1_OneCallPerBurst == \A p \in Paths : calls[p] <= bursts[p]

\* C2: no watcher-initiated reindex call for a project starts while a
\* qualifying event of that project is less than one debounce window old.
C2_CallAfterQuietWindow == \A p \in Paths : earlyCalls[p] = 0

-----------------------------------------------------------------------------
(* The end of a pass *)

\* the step ends the pass batch t is in: the batch goes on to its next project
\* or returns
EndsBatchPass(t) ==
  /\ tasks[t].kind = "batch"
  /\ tasks[t].stage = "C"
  /\ \/ Batches' = {}
     \/ /\ t \in Batches'
        /\ Len(tasks'[t].log) > Len(tasks[t].log)

\* C11: when a pass in which every analyzer and storage call returned ends,
\* the registry entry of its project has indexStatus completed, lastIndexed
\* equal to the time the pass completed, and the three counts the pass produced.
C11_SuccessRecorded ==
  [][\A t \in Batches :
       (EndsBatchPass(t) /\ ~tasks[t].threw /\ MapHas(projects', tasks[t].proj.path)) =>
         LET e == MapGet(projects', tasks[t].proj.path)
         IN  /\ e.indexStatus = "completed"
             /\ Has(e, "lastIndexed") /\ e.lastIndexed = tasks[t].stamp
             /\ Only(e, {"symbolCount", "testCount", "docCount"}) = tasks[t].counts]_vars

-----------------------------------------------------------------------------
(* load *)

\* C12: load() on a snapshot that is missing, unreadable, not JSON, without a
\* project list, or whose project list has an element that is not a project
\* object with a path, leaves the registry empty.
C12_LoadCorruptIsEmpty ==
  [][(/\ LoadStep
      /\ \/ disk.kind # "json"
         \/ ~Has(disk, "projects")
         \/ \E i \in 1..Len(disk.projects) :
              disk.projects[i] = Null \/ ~Has(disk.projects[i], "path"))
     => projects' = <<>>]_vars

-----------------------------------------------------------------------------
(* updateIndexStatus *)

\* C13: updateIndexStatus for a path that is not registered changes nothing:
\* the Map keeps its entries, no save is started, registry.json is not written.
C13_UnknownUpdateIsNoOp ==
  [][\A p \in Paths, a \in StatusArgs :
       (CallUpdateIndexStatus(p, a[1], a[2]) /\ ~MapHas(projects, p)) =>
         /\ projects' = projects
         /\ tasks' = tasks
         /\ disk' = disk
         /\ lastOp' = lastOp]_vars

\* an update of an unknown path has returned while another project is registered
C13_Witness ==
  /\ lastCall.kind = "updateIndexStatus"
  /\ lastCall.result = "unknown"
  /\ ~MapHas(projects, lastCall.path)
  /\ projects # <<>>

-----------------------------------------------------------------------------
(* reindex_project *)

\* the step resumes invocation t and the invocation returns
Returns(t) ==
  /\ Len(tasks') < Len(tasks)
  /\ \/ \E ok \in BOOLEAN : SaveMkdirDone(t, ok)
     \/ \E ok \in BOOLEAN : SaveWriteDone(t, ok)
     \/ \E o \in PassOutcomes(tasks[t].proj.language) : AnalyzeDone(t, o)

\* C14: a forced reindex of a path that is not registered fails with a
\* not-found error and starts no pass, changes no entry and writes no
\* snapshot; a forced reindex of a registered path returns only when its pass
\* has written its final status (or found the entry gone once the analyzers
\* had returned), and with no other pass of the path in flight the entry it
\* reads back is completed.
C14_ForceReindex ==
  [][/\ \A p \in Paths :
          (ForceReindex(p) /\ ~MapHas(projects, p)) =>
            /\ lastCall'.result = "threw"
            /\ projects' = projects
            /\ tasks' = tasks
            /\ disk' = disk
     /\ \A t \in 1..Len(tasks) :
          (tasks[t].kind = "force" /\ Returns(t)) =>
            /\ \/ tasks[t].stage = "C"
               \/ tasks[t].pc = "analyze" /\ ~MapHas(projects, tasks[t].proj.path)
            /\ (/\ MapHas(projects', tasks[t].proj.path)
                /\ \A u \in 1..Len(tasks') : tasks'[u].proj.path # tasks[t].proj.path)
               => MapGet(projects', tasks[t].proj.path).indexStatus = "completed"]_vars

\* a forced reindex of a registered path has returned after its pass stamped
\* the entry, and one of an unregistered path has failed
C14_Witness ==
  /\ lastCall.kind = "force"
  /\ lastCall.result = "threw"
  /\ ~MapHas(projects, lastCall.path)
  /\ RunningPasses = {}
  /\ \E q \in Paths :
       /\ MapHas(projects, q)
       /\ MapGet(projects, q).indexStatus = "completed"
       /\ MapGet(projects, q).lastIndexed = now

-----------------------------------------------------------------------------
(* save *)

\* C15: registry.json always holds a complete snapshot (or does not exist):
\* never a text that is a part of a snapshot or a mix of two.
C15_SnapshotComplete == disk.kind \in {"absent", "json"}

-----------------------------------------------------------------------------
(* indexing is a transient status *)

\* C16: a registered project that no indexProject call is in flight for has
\* status pending, completed or failed, also once the process has restarted
\* and loaded registry.json.
C16_NeverStuckIndexing ==
  \A p \in Paths :
    (/\ MapHas(projects, p)
     /\ \A t \in RunningPasses : tasks[t].proj.path # p)
    => MapGet(projects, p).indexStatus \in {"pending", "completed", "failed"}

-----------------------------------------------------------------------------
(* registered paths *)

\* C17: no step of the tools, of an indexing pass or of a save takes a path
\* out of the registry.
C17_PathsNeverShrink ==
  [][\A p \in Paths : MapHas(projects, p) => MapHas(projects', p)]_vars

-----------------------------------------------------------------------------
(* Discovery *)

\* the languages with a positive score
Active(entries) == {l \in {"go", "python", "nodejs"} : LanguageScores(entries)[l] > 0}

\* C18 as stated: a directory in which two or more languages have a positive
\* score is classified mixed, and one in which exactly one language has a
\* positive score, and which has an indicator, is classified as that language.
C18_Original ==
  scanResult # NotAnalyzed =>
    /\ Cardinality(Active(scanEntries)) >= 2 =>
         scanResult # NotAProject /\ scanResult.language = "mixed"
    /\ (Cardinality(Active(scanEntries)) = 1 /\ Indicators(scanEntries) # <<>>) =>
         scanResult # NotAProject /\ {scanResult.language} = Active(scanEntries)

\* C18: a directory that has an indicator and in which two or more languages
\* have a positive score is classified mixed, whichever score is greatest; one
\* that has an indicator and exactly one language with a positive score is
\* classified as that language.
C18_Classification ==
  (scanResult # NotAnalyzed /\ Indicators(scanEntries) # <<>>) =>
    /\ Cardinality(Active(scanEntries)) >= 2 =>
         scanResult # NotAProject /\ scanResult.language = "mixed"
    /\ Cardinality(Active(scanEntries)) = 1 =>
         scanResult # NotAProject /\ {scanResult.language} = Active(scanEntries)

\* a directory with go.mod and one Python file: go scores more, the result is mixed
C18_Witness ==
  /\ scanResult # NotAnalyzed
  /\ scanResult # NotAProject
  /\ LanguageScores(scanEntries).go > LanguageScores(scanEntries).python
  /\ LanguageScores(scanEntries).python > 0
  /\ LanguageScores(scanEntries).nodejs = 0
  /\ scanResult.language = "mixed"

\* the names analyzeDirectory pushes as indicators
IndicatorNames ==
  {".vscode", ".idea", ".git", "go.mod", "go.sum", "requirements.txt", "setup.py",
   "Pipfile", "pyproject.toml", "package.json", "tsconfig.json"}

\* C19: analyzeDirectory returns a project only for a directory with a
\* positive language score and an indicator, and every project it returns
\* has a non-empty indicator list; a directory whose scores are all zero, or
\* that has none of the indicator names, is rejected.
C19_ProjectsHaveIndicators ==
  scanResult # NotAnalyzed =>
    /\ scanResult # NotAProject =>
         /\ Active(scanEntries) # {}
         /\ Len(scanResult.indicators) > 0
         /\ \A i \in 1..Len(scanResult.indicators) :
              scanResult.indicators[i] \in scanEntries \cap IndicatorNames
    /\ (Active(scanEntries) = {} \/ scanEntries \cap IndicatorNames = {}) =>
         scanResult = NotAProject

\* a directory with source files and no indicator has been rejected
C19_Witness ==
  /\ scanResult = NotAProject
  /\ Active(scanEntries) # {}
  /\ scanEntries \cap IndicatorNames = {}

-----------------------------------------------------------------------------
(* The watcher's filter *)

\* the directory names on the way to the changed file
DirComponents(filename) ==
  LET slashes == {i \in 1..Len(filename) : SubSeq(filename, i, i) = "/"}
  IN  {SubSeq(filename, a + 1, b - 1) :
         <<a, b>> \in {ab \in ({0} \cup slashes) \X slashes :
                         /\ ab[1] < ab[2]
                         /\ \A c \in slashes : ~(ab[1] < c /\ c < ab[2])}}

\* C20: a change notification for a watched project sets that project's
\* debounce timer exactly when no directory on the way to the changed file has
\* a denylisted name and the file's extension is a source extension of the
\* project's language; any other notification leaves every timer as it was.
C20_WatcherFilter ==
  [][\A p \in Paths, filename \in Filenames :
       HandleFileChange(p, filename) =>
         IF /\ DirComponents(filename) \cap ignorePaths = {}
            /\ ExtName(filename) \in sourceExtensions(MapGet(watchers, p).language)
           THEN /\ debounceTimers'[p] # debounceTimers[p]
                /\ MapHas(armed', debounceTimers'[p])
           ELSE /\ debounceTimers' = debounceTimers
                /\ armed' = armed]_vars

-----------------------------------------------------------------------------
(* Discovery over a tree *)

\* q is a directory below p
Inside(q, p) == Len(q) > Len(p) /\ SubSeq(q, 1, Len(p) + 1) = p \o "/"

\* C21: the list an exhaustive scan returns never holds a project whose
\* directory lies inside the directory of another project of the list.
C21_NoNestedProjects ==
  discovered.mode = "full" =>
    \A i, j \in 1..Len(discovered.projects) :
      ~Inside(discovered.projects[i].path, discovered.projects[j].path)


\* the directories from r down to d, d excluded
Above(d, r) == {a \in Dirs : (a = r \/ Inside(a, r)) /\ Inside(d, a)}

IsProject(d) == Readable(fs, d) /\ AnalyzeDirectory(d, DirEntries(fs, d)) # NotAProject

\* an exhaustive scan from search path r comes to d and reads it
Reaches(r, d, maxDepth) ==
  /\ r \in Dirs
  /\ d = r \/ Inside(d, r)
  /\ Cardinality(Above(d, r)) <= maxDepth
  /\ \A a \in Above(d, r) : Readable(fs, a) /\ ~IsProject(a)

DiscoveredPaths == {discovered.projects[i].path : i \in 1..Len(discovered.projects)}

\* exhaustive mode: directories that cannot be read are passed over and
\* every project the scan comes to among the readable ones is returned.
FullScanSkipsUnreadable ==
  discovered.mode = "full" =>
    \A d \in Dirs :
      (IsProject(d) /\ \E i \in 1..Len(searchPaths) : Reaches(searchPaths[i], d, discovered.maxDepth))
        => d \in DiscoveredPaths

\* C23: a directory that cannot be read is passed over in both modes: the
\* exhaustive scan returns every project it comes to among the readable
\* directories, and the quick scan returns every project among the directories
\* find listed that can be read and lie below readable directories only.
C23_UnreadableSkipped ==
  /\ FullScanSkipsUnreadable
  /\ discovered.mode = "quick" =>
       \A i \in 1..Len(discovered.markers) :
         (/\ IsProject(discovered.markers[i])
          /\ \A a \in Above(discovered.markers[i], HomeDir) : Readable(fs, a))
           => discovered.markers[i] \in DiscoveredPaths

\* the language AnalyzeDirectory gives the single-language directory
LanguageA == IF "go.mod" \in fs["/h/dev/p"] THEN "go" ELSE "python"

\* the batch invocation t returns in this step
BatchReturns(t) ==
  /\ t \in Batches
  /\ Batches' = {}

C24_WatchFailureContained ==
  [][/\ \A unwatchable \in SUBSET Paths :
          StartWatchingAllOn(unwatchable) =>
             /\ lastCall'.result = "returned"
             /\ \A p \in MapKeys(projects) :
                  /\ (p \in unwatchable /\ ~MapHas(watchers, p)) => ~MapHas(watchers', p)
                  /\ p \notin unwatchable => MapHas(watchers', p)
     /\ \A q \in Paths, unwatchable \in SUBSET Paths :
          CallWatchProject(q, unwatchable) =>
             /\ lastCall'.result = "returned"
             /\ (q \in unwatchable /\ ~MapHas(watchers, q)) => ~MapHas(watchers', q)
             /\ q \notin unwatchable => MapHas(watchers', q)]_vars

\* startWatchingAll has returned with the first registered project unwatched
\* and the second one watched
C24_Witness ==
  /\ lastCall.kind = "startWatchingAll"
  /\ lastCall.result = "returned"
  /\ ~MapHas(watchers, "/w/a")
  /\ MapHas(watchers, "/w/b")

\* the timers set for path p that have neither fired nor been cleared
ArmedFor(p) == {h \in MapKeys(armed) : MapGet(armed, h).path = p}

\* C25: every project has at most one debounce timer armed, and every armed
\* timer is the one the timer map holds for its project
C25_OneTrackedTimer ==
  \A p \in Paths :
     /\ Cardinality(ArmedFor(p)) <= 1
     /\ \A h \in ArmedFor(p) : debounceTimers[p] = h

\* C26: a timer callback calls reindexProject only for a project that is
\* watched: once stopWatchingAll has returned, no watcher-initiated re-index of
\* a project starts until the project is watched again
C26_NoReindexAfterUnwatch ==
  [][\A p \in Paths : calls'[p] > calls[p] => MapHas(watchers, p)]_vars

\* the passes in flight on project p
RunningPassesOf(p) == {t \in RunningPasses : tasks[t].proj.path = p}

\* C27: no project has two indexProject passes in flight at once, whether
\* the batch, the reindex_project tool or a debounce timer started them
C27_OnePassPerProject == \A p \in Paths : Cardinality(RunningPassesOf(p)) <= 1

\* C28: initialize() constructs the indexer and the watcher once: no pair is
\* overwritten by a second one, so the schedule and the observers started at
\* startup belong to the pair the tools act on, and after stop_auto_indexing
\* no schedule is left running
C28_OneIndexerOneWatcher ==
  /\ replaced = <<>>
  /\ lastCall.kind = "stop_auto_indexing" =>
       /\ ~cronTask
       /\ \A i \in 1..Len(replaced) : ~replaced[i].cronTask

\* the indexStatus of the registry entry m holds for path p
StatusOf(m, p) == MapGet(m, p).indexStatus

\* C29: a path that enters the registry enters it pending, and the
\* indexStatus of a registered path changes only to indexing, or from indexing
\* to completed or failed
C29_Lifecycle ==
  [][\A p \in Paths :
       /\ (~MapHas(projects, p) /\ MapHas(projects', p) /\ ~LoadStep)
             => StatusOf(projects', p) = "pending"
       /\ (MapHas(projects, p) /\ MapHas(projects', p)
             /\ StatusOf(projects', p) # StatusOf(projects, p))
             => \/ StatusOf(projects', p) = "indexing"
                \/ /\ StatusOf(projects, p) = "indexing"
                   /\ StatusOf(projects', p) \in {"completed", "failed"}]_vars

\* a path that discovery added has gone from pending through indexing to
\* completed in a batch, beside a path that was registered at startup
C29_Witness ==
  /\ tasks = <<>>
  /\ lastCall.kind = "batch"
  /\ MapHas(projects, "/w/a")
  /\ MapHas(projects, "/w/b")
  /\ StatusOf(projects, "/w/b") = "completed"
  /\ StatusOf(projects, "/w/a") = "completed"

\* C30: once every mutator that changed the Map has returned, its writes
\* having succeeded, registry.json holds exactly the projects of the Map
C30_DiskHoldsRegistry ==
  (tasks = <<>> /\ lastOp.op \in {"add", "update", "remove"}) =>
     /\ disk.kind = "json"
     /\ disk.projects = MapValues(projects)

\* C31: an entry of the registry has an error message exactly when its
\* indexStatus is failed
C31_ErrorIffFailed ==
  \A i \in 1..Len(projects) :
     Has(projects[i].value, "error") <=> (projects[i].value.indexStatus = "failed")

\* lastIndexed of the entry m holds for path p, 0 when the entry has none
LastIndexedOf(m, p) ==
  IF MapHas(m, p) /\ Has(MapGet(m, p), "lastIndexed") THEN MapGet(m, p).lastIndexed ELSE 0

\* in this step a pass on p in which every analyzer and storage call returned
\* writes its completed status
CompletesSuccessfully(p) ==
  \E t \in 1..Len(tasks) :
     /\ tasks[t].pc = "analyze"
     /\ tasks[t].proj.path = p
     /\ t <= Len(tasks')
     /\ tasks'[t].stage = "C"
     /\ ~tasks'[t].threw

\* C32: every completed entry has lastIndexed, and lastIndexed of a path
\* changes only in a step in which a pass on the path completes successfully,
\* and then it does not decrease
C32_LastIndexed ==
  [][\A p \in Paths :
       /\ (MapHas(projects', p) /\ StatusOf(projects', p) = "completed")
             => Has(MapGet(projects', p), "lastIndexed")
       /\ LastIndexedOf(projects', p) # LastIndexedOf(projects, p)
             => /\ CompletesSuccessfully(p)
                /\ LastIndexedOf(projects', p) >= LastIndexedOf(projects, p)]_vars

-----------------------------------------------------------------------------
(* The documentation schedule and the project indexer on one VectorDBManager *)

\* what scrapeGoDocumentation / scrapePythonDocumentation / scrapeNodeDocumentation
\* hand to addDocuments (doc-scraper.ts line 25)
OfficialDocuments == {[type |-> "official_doc", project_path |-> ""]}

\* VectorDBManager.clearAll, manager.ts lines 199-209: the collection
\* "documentation" is deleted and created again, empty
ClearAll(c) == {}

\* the weekly cron callback of DocScheduler, part_006 lines 247-252, up to the
\* await of scrapeAllDocs; vectorDB is the manager the ProjectIndexer stores
\* to (part_005 lines 40-51)
WeeklyDeepScrape ==
  /\ launched < MaxLaunch
  /\ collection' = ClearAll(collection)
  /\ Launch(R([NewTask("weekly") EXCEPT !.pc = "scrape"], Ctx), lastOp)
  /\ UNCHANGED <<disk, now, replaced, ScannerVars, cronTask, schedules, indexer, lastCall, armed,
                 nextTimer, lastEvent, bursts, calls, earlyCalls>>

\* scrapeAllDocs, part_006 lines 299-339, returns
ScrapeAllDocsDone(t) ==
  /\ tasks[t].pc = "scrape"
  /\ collection' = collection \cup OfficialDocuments
  /\ Apply(t, R([tasks[t] EXCEPT !.pc = "done"], Ctx), lastOp)
  /\ UNCHANGED <<disk, now, replaced, ScannerVars, launched, cronTask, schedules, indexer, lastCall,
                 armed, nextTimer, lastEvent, bursts, calls, earlyCalls>>

NextStorage ==
  \/ \E p \in Paths : ForceReindex(p)
  \/ WeeklyDeepScrape
  \/ \E t \in 1..Len(tasks) : ScrapeAllDocsDone(t)
  \/ \E t \in 1..Len(tasks) : SaveMkdirDone(t, TRUE)
  \/ \E t \in 1..Len(tasks) : SaveWriteDone(t, TRUE)
  \/ \E t \in 1..Len(tasks) : \E o \in PassOutcomes(tasks[t].proj.language) : AnalyzeDone(t, o)

SpecStorage == InitForce /\ [][NextStorage]_vars

\* the documents indexProject stored for project p
ProjectDocuments(c, p) ==
  {d \in c : d.type \in {"local_symbol", "local_test", "local_doc"} /\ d.project_path = p}

\* C33: the documentation schedule leaves the documents of registered projects
\* alone: every document an indexing pass stored for a registered project is
\* still in storage after any step, a weekly deep documentation run included
C33_ScheduleKeepsProjectDocuments ==
  [][\A p \in Paths :
       MapHas(projects, p) => ProjectDocuments(collection, p) \subseteq collection']_vars

\* the pass of task t on a registered mixed project returns with the
\* sub-pass results g, py and nd
MixedPassReturns(t, g, py, nd) ==
  /\ tasks[t].proj.language = "mixed"
  /\ MapHas(projects, tasks[t].proj.path)
  /\ AnalyzeDone(t, Mixed(g, py, nd))

\* C34: a pass on a mixed project runs the Go, the Python and the Node.js
\* sub-pass; whichever of them met an error, the pass records completed, and
\* each recorded count is the sum of what the three sub-passes returned
C34_MixedSumsSubPasses ==
  [][\A t \in 1..Len(tasks) : \A g \in SubPassOutcomes, py \in SubPassOutcomes, nd \in SubPassOutcomes :
       MixedPassReturns(t, g, py, nd) =>
         LET e == GetProject(projects', tasks[t].proj.path)
         IN  /\ e.indexStatus = "completed"
             /\ e.symbolCount = g.counts.symbolCount + py.counts.symbolCount + nd.counts.symbolCount
             /\ e.testCount = g.counts.testCount + py.counts.testCount + nd.counts.testCount
             /\ e.docCount = g.counts.docCount + py.counts.docCount + nd.counts.docCount]_vars

\* a pass on a mixed project in which a sub-pass met an error has recorded
\* completed with the records of the two other sub-passes
C34_Witness ==
  \E t \in 1..Len(tasks) :
     /\ tasks[t].stage = "C"
     /\ tasks[t].threw
     /\ tasks[t].proj.language = "mixed"
     /\ MapHas(projects, tasks[t].proj.path)
     /\ LET e == GetProject(projects, tasks[t].proj.path)
        IN  e.indexStatus = "completed" /\ e.symbolCount = 2 * MaxCount /\ e.testCount = 2 * MaxCount

\* getStats, scanner.ts lines 814-824
GetStats ==
  [isIndexing |-> isIndexing, autoIndexingEnabled |-> cronTask]

\* C35: the in-flight flag, and with it the isIndexing of getStats, is set
\* exactly while a batch is running: a batch that took the flag has released
\* it when it returns, and an invocation of indexPendingProjects made while
\* no batch is running is not turned away
C35_BatchFlagReleased ==
  [][/\ GetStats'.isIndexing <=> (Batches' # {})
     /\ (Batches # {} /\ Batches' = {}) => ~isIndexing'
     /\ (BatchCall /\ Batches = {}) => lastCall'.result # "skipped"]_vars

\* the batch the last invocation started took the flag, has visited its
\* projects and returned, and the flag is released
C35_Witness ==
  /\ lastCall.kind = "batch"
  /\ lastCall.result = "running"
  /\ Batches = {}
  /\ ~isIndexing
  /\ \E i \in 1..Len(projects) : projects[i].value.indexStatus = "completed"

-----------------------------------------------------------------------------
(* discover_projects on directories that carry one or both IDE marker directories *)

\* what a directory of the tree can hold
MarkerListings ==
  { {}, {"main.go"}, {".vscode", "go.mod", "main.go"},
    {".idea", ".vscode", "go.mod", "main.go"} }

InitMarkers ==
  /\ InitObjects
  /\ indexer = FALSE
  /\ projects = <<>>
  /\ disk = NoFile
  /\ scanEntries = {}
  /\ fs \in [Dirs -> MarkerListings]
  /\ fs["/h/x/node_modules"] = {}
  /\ links = {}
  /\ fs["/h"] = {}
  /\ fs["/h/x/y/z"] = {}

SpecMarkers == InitMarkers /\ [][NextDiscovery]_vars

\* C36: the list one discover call returns, targeted or exhaustive, has no
\* two elements with the same path
C36_NoDuplicatePaths ==
  discovered # NotScanned =>
    \A i, j \in 1..Len(discovered.projects) :
       discovered.projects[i].path = discovered.projects[j].path => i = j

-----------------------------------------------------------------------------
(* Re-discovery of a watched project under another language *)

\* what the scanner returns to discover_projects for /w/a, before and after
\* its sources change language
Relanguaged == {<<Discovered("/w/a", "go")>>, <<Discovered("/w/a", "python")>>}

\* the names fs.watch reports for /w/a
ChangedFiles == {"main.go", "app.py", "README.md"}

InitRelanguage ==
  /\ InitCommon
  /\ disk = NoFile
  /\ projects = <<>>

NextRelanguage ==
  \/ \E found \in Relanguaged : HandleTool("discover_projects", found)
  \/ \E p \in ArgPaths, f \in ChangedFiles : HandleFileChange(p, f)
  \/ \E t \in 1..Len(tasks) : SaveMkdirDone(t, TRUE)
  \/ \E t \in 1..Len(tasks) : SaveWriteDone(t, TRUE)

SpecRelanguage == InitRelanguage /\ [][NextRelanguage]_vars

\* C37: a notification for a watched, registered project starts the debounce
\* timer exactly when the file is not ignored and has a source extension of
\* the language the registry holds for the project at that moment
C37_WatcherFollowsLanguage ==
  [][\A p \in ArgPaths, f \in ChangedFiles :
       (HandleFileChange(p, f) /\ MapHas(projects, p)) =>
         ((nextTimer' # nextTimer)
            <=> (~ShouldIgnoreFile(f) /\ IsSourceFile(f, GetProject(projects, p).language)))]_vars

\* the fs.watch observers open on path p: one for every ProjectFileWatcher
\* whose watchers Map holds p, the one the field holds and those a later
\* initialize() dropped without closing them
OpenObservers(p) ==
  (IF MapHas(watchers, p) THEN 1 ELSE 0)
    + Cardinality({i \in 1..Len(replaced) : MapHas(replaced[i].watchers, p)})

\* getStatus, file-watcher.ts lines 188-196
GetStatus == [watchedProjects |-> Len(watchers), pendingReindexes |-> Len(armed)]

\* C38: no path has two observers open at any time, and when stopWatchingAll
\* has returned the watched count is 0 and no observer is open
C38_OneObserverPerPath ==
  [][/\ \A p \in Paths : OpenObservers(p)' <= 1
     /\ StopWatchingAll =>
          /\ GetStatus'.watchedProjects = 0
          /\ \A p \in Paths : OpenObservers(p)' = 0]_vars

-----------------------------------------------------------------------------
(* The schedule of one ProjectIndexer, started and stopped by the tools *)

\* the schedules the start_auto_indexing tool is called with
CronSchedules == {Hourly, "*/5 * * * *"}

NextSchedule ==
  \/ \E cronSchedule \in CronSchedules : StartAutoIndexing(cronSchedule)
  \/ StopAutoIndexing
  \/ (Len(tasks) <= 1 /\ CronFire)
  \/ \E t \in 1..Len(tasks) : SaveMkdirDone(t, TRUE)
  \/ \E t \in 1..Len(tasks) : SaveWriteDone(t, TRUE)
  \/ \E t \in 1..Len(tasks) : \E o \in PassOutcomes(tasks[t].proj.language) : AnalyzeDone(t, o)

SpecSchedule == InitIndexer /\ [][NextSchedule]_vars

\* C39: an indexer has at most one cron task running; startAutoIndexing on an
\* indexer whose schedule is running starts none and leaves the running one
\* with its cadence; stopAutoIndexing leaves none running and interrupts no
\* batch; a batch is started only by a running schedule; and the
\* autoIndexingEnabled of getStats is true exactly while a cron task is running
C39_OneSchedule ==
  [][/\ Len(schedules') <= 1
     /\ GetStats'.autoIndexingEnabled <=> (schedules' # <<>>)
     /\ \A cronSchedule \in CronSchedules :
          (StartAutoIndexing(cronSchedule) /\ schedules # <<>>) => schedules' = schedules
     /\ StopAutoIndexing => (schedules' = <<>> /\ tasks' = tasks /\ isIndexing' = isIndexing)
     /\ BatchCall => GetStats.autoIndexingEnabled]_vars

\* the schedule runs with the cadence it was started with and a batch it
\* started is running
C39_Witness ==
  /\ schedules = <<"*/5 * * * *">>
  /\ cronTask
  /\ Batches # {}

-----------------------------------------------------------------------------
(* The exhaustive scan on trees with symbolic links and denylisted directories *)

\* the links of the file system: none; a search path that is a link to a
\* directory the home directory also leads to, to the home directory itself
\* (a cycle: the home directory holds the link), or to another search path;
\* and a link in a directory of the tree that points back to the home directory
LinkSets ==
  { {},
    {[link |-> "/h/Projects", target |-> "/h/x"]},
    {[link |-> "/h/Projects", target |-> HomeDir]},
    {[link |-> "/h/Projects", target |-> "/h/dev"]},
    {[link |-> "/h/x/y/up", target |-> HomeDir]} }

\* what a directory of the tree can hold
LinkedListings == { {}, {".vscode", "go.mod", "main.go"} }

\* the maxDepth argument of discover_projects
ScanDepths == {0, 1, 2, 3}

InitLinks ==
  /\ InitObjects
  /\ indexer = FALSE
  /\ projects = <<>>
  /\ disk = NoFile
  /\ scanEntries = {}
  /\ fs \in [Dirs -> LinkedListings]
  /\ links \in LinkSets

NextLinks == \E maxDepth \in ScanDepths : Discover(maxDepth)

SpecLinks == InitLinks /\ [][NextLinks]_vars

\* the number of path components of d below r
DepthBelow(d, r) == Cardinality({k \in (Len(r) + 1)..Len(d) : SubSeq(d, k, k) = "/"})

\* C40: an exhaustive scan returns for every tree, with links and cycles of
\* links: no directory is classified twice under its canonical path, no
\* directory with a denylisted name is entered below a search path, and every
\* classified directory lies at most maxDepth levels below a search path
C40_ScanBounded ==
  discovered.mode = "full" =>
    LET c == discovered.classified
    IN  /\ \A i, j \in 1..Len(c) : c[i].realPath = c[j].realPath => i = j
        /\ \A i \in 1..Len(c) :
             \E r \in 1..Len(searchPaths) :
                /\ HasPrefix(c[i].dir, searchPaths[r])
                /\ DepthBelow(c[i].dir, searchPaths[r]) <= discovered.maxDepth
                /\ \A a \in Dirs \cup {c[i].dir} :
                     (HasPrefix(c[i].dir, a) /\ Inside(a, searchPaths[r]))
                       => (Basename(a) \notin skipDirs /\ SubSeq(Basename(a), 1, 1) # ".")

\* a scan has come to the home directory both through a search path that is
\* a link to it and directly, has classified it once, and has passed over a
\* denylisted directory that holds a project
C40_Witness ==
  /\ discovered.mode = "full"
  /\ discovered.maxDepth = 3
  /\ [link |-> "/h/Projects", target |-> HomeDir] \in links
  /\ \E i \in 1..Len(discovered.classified) :
        /\ discovered.classified[i].dir = "/h/Projects"
        /\ discovered.classified[i].realPath = HomeDir
  /\ fs["/h/x/node_modules"] # {}
  /\ fs["/h/x"] = {}
  /\ \E i \in 1..Len(discovered.classified) : discovered.classified[i].realPath = "/h/x"
  /\ \A i \in 1..Len(discovered.classified) :
        discovered.classified[i].realPath # "/h/x/node_modules"

====
